---- MODULE Spec2Model ----
(***************************************************************************)
(* Model of the parser-combinator engine of src/src/parse/parser.rs.       *)
(*                                                                         *)
(* A parser State is a record; a parser is a term (a record tagged with    *)
(* the combinator that built it) and Parse(p, state) evaluates it the way  *)
(* the closures of parser.rs do.  The state machine applies the State      *)
(* methods and whole parsers, one call per step, to the state returned by  *)
(* the previous call (the one returned with Ok as well as the one returned *)
(* with Err).                                                              *)
(***************************************************************************)
EXTENDS Integers, Sequences, FiniteSets, TLC

\* ---------------------------------------------------------------- widths
U16Max == 65535

\* A 32-bit unsigned number is kept as its two 16-bit halves, hi * 2^16 + lo.
U32(hi, lo) == [hi |-> hi, lo |-> lo]
U32Zero == U32(0, 0)
U32Max == U32(U16Max, U16Max)

\* u32::checked_add(1)
checked_add_1(x) ==
    IF x.lo < U16Max THEN <<"Some", U32(x.hi, x.lo + 1)>>
    ELSE IF x.hi < U16Max THEN <<"Some", U32(x.hi + 1, 0)>>
    ELSE <<"None">>

\* ---------------------------------------------------------------- bounds
\* columns left before column 65535 where the model takes over a long line
Margin == 3
\* characters of a long line beyond column 65535
Beyond == 3

\* ---------------------------------------------------------------- input
\* The input text is kept run-length encoded: a sequence of runs
\* [ch |-> c, n |-> k] standing for k copies of the character c, k >= 1.
Run(c, k) == [ch |-> c, n |-> k]

RECURSIVE InputLen(_)
InputLen(input) ==
    IF input = <<>> THEN 0 ELSE Head(input).n + InputLen(Tail(input))

\* input.chars().next()
FirstChar(input) == Head(input).ch

\* &input[quantity..], for quantity <= InputLen(input)
RECURSIVE Slice(_, _)
Slice(input, quantity) ==
    IF quantity = 0 \/ input = <<>> THEN input
    ELSE IF Head(input).n > quantity
         THEN <<Run(Head(input).ch, Head(input).n - quantity)>> \o Tail(input)
         ELSE Slice(Tail(input), quantity - Head(input).n)

\* input.get(0..len) == Some(string), string a sequence of characters
RECURSIVE StartsWith(_, _)
StartsWith(input, string) ==
    IF string = <<>> THEN TRUE
    ELSE IF input = <<>> THEN FALSE
    ELSE /\ FirstChar(input) = Head(string)
         /\ StartsWith(Slice(input, 1), Tail(string))

\* the first `spaces` characters of the input are all spaces
LeadingSpaces(input, spaces) ==
    \/ spaces = 0
    \/ /\ input # <<>>
       /\ FirstChar(input) = " "
       /\ Head(input).n >= spaces

\* ---------------------------------------------------------------- results
Unit == <<>>

NoFail == [attempting |-> "-", reason |-> <<"None">>]

\* ltl is a trace flag: line_too_long ran while the result was computed.
Ok(out, state) ==
    [kind |-> "Ok", out |-> out, fail |-> NoFail, state |-> state, ltl |-> FALSE]

Err(fail, state) ==
    [kind |-> "Err", out |-> Unit, fail |-> fail, state |-> state, ltl |-> FALSE]

\* a failed debug_assert! aborts the program
Panic(state) ==
    [kind |-> "Panic", out |-> Unit, fail |-> NoFail, state |-> state, ltl |-> FALSE]

\* a loop that never reaches a return
Loop(state) ==
    [kind |-> "Loop", out |-> Unit, fail |-> NoFail, state |-> state, ltl |-> FALSE]

Traced(r, flag) == [r EXCEPT !.ltl = @ \/ flag]

Region(start_col, end_col, start_line, end_line) ==
    [start_col |-> start_col, end_col |-> end_col,
     start_line |-> start_line, end_line |-> end_line]

\* ---------------------------------------------------------------- State
NewState(input, attempting) ==
    [input |-> input, line |-> U32Zero, column |-> 0, indent_col |-> 1,
     is_indenting |-> TRUE, attempting |-> attempting]

\* variant: the parser is advanced to the end of the input
line_too_long_at_end(attempting, state) ==
    Traced(Err([reason |-> <<"LineTooLong", state.line>>, attempting |-> attempting],
               [input |-> <<>>,
                line |-> state.line,
                indent_col |-> state.indent_col,
                is_indenting |-> state.is_indenting,
                column |-> U16Max,
                attempting |-> attempting]),
           TRUE)

line_too_long(attempting, state) ==
    Traced(Err([reason |-> <<"LineTooLong", state.line>>, attempting |-> attempting],
               [input |-> state.input,
                line |-> state.line,
                indent_col |-> state.indent_col,
                is_indenting |-> state.is_indenting,
                column |-> U16Max,
                attempting |-> attempting]),
           TRUE)

\* variant: the indentation of the line left is carried into the next line
newline_keeping_indent(self) ==
    IF checked_add_1(self.line)[1] = "Some"
    THEN Ok(Unit, [input |-> Slice(self.input, 1),
                   line |-> checked_add_1(self.line)[2],
                   column |-> 0,
                   indent_col |-> self.indent_col,
                   is_indenting |-> TRUE,
                   attempting |-> self.attempting])
    ELSE Err([reason |-> <<"TooManyLines">>, attempting |-> self.attempting], self)

\* variant: the line counter wraps (u32::wrapping_add)
newline_wrapping(self) ==
    Ok(Unit, [input |-> Slice(self.input, 1),
              line |-> IF checked_add_1(self.line)[1] = "Some"
                       THEN checked_add_1(self.line)[2] ELSE U32Zero,
              column |-> 0,
              indent_col |-> 1,
              is_indenting |-> TRUE,
              attempting |-> self.attempting])

\* variant: a TooManyLines failure poisons the state as LineTooLong does
newline_poisoning(self) ==
    IF checked_add_1(self.line)[1] = "Some"
    THEN Ok(Unit, [input |-> Slice(self.input, 1),
                   line |-> checked_add_1(self.line)[2],
                   column |-> 0,
                   indent_col |-> 1,
                   is_indenting |-> TRUE,
                   attempting |-> self.attempting])
    ELSE Err([reason |-> <<"TooManyLines">>, attempting |-> self.attempting],
             [self EXCEPT !.column = U16Max])

newline(self) ==
    IF checked_add_1(self.line)[1] = "Some"
    THEN Ok(Unit, [input |-> Slice(self.input, 1),
                   line |-> checked_add_1(self.line)[2],
                   column |-> 0,
                   indent_col |-> 1,
                   is_indenting |-> TRUE,
                   attempting |-> self.attempting])
    ELSE Err([reason |-> <<"TooManyLines">>, attempting |-> self.attempting], self)

\* variant: the column saturates at 65535 where the code checks the sum
advance_saturating(self, quantity) ==
    Ok(Unit, [input |-> Slice(self.input, quantity),
              line |-> self.line,
              column |-> IF self.column + quantity <= U16Max
                         THEN self.column + quantity ELSE U16Max,
              indent_col |-> self.indent_col,
              is_indenting |-> FALSE,
              attempting |-> self.attempting])

advance_without_indenting(self, quantity) ==
    IF self.column + quantity <= U16Max
    THEN Ok(Unit, [input |-> Slice(self.input, quantity),
                   line |-> self.line,
                   column |-> self.column + quantity,
                   indent_col |-> self.indent_col,
                   is_indenting |-> FALSE,
                   attempting |-> self.attempting])
    ELSE line_too_long(self.attempting, self)

\* debug is TRUE in a build with debug assertions (which also traps on
\* integer overflow); otherwise the 16-bit addition wraps.
advance_spaces(self, spaces, debug) ==
    IF self.column + spaces <= U16Max
    THEN IF self.is_indenting /\ debug /\ ~(U16Max - self.indent_col >= spaces)
         THEN Panic(self)
         ELSE Ok(Unit, [input |-> Slice(self.input, spaces),
                        line |-> self.line,
                        column |-> self.column + spaces,
                        indent_col |-> IF self.is_indenting
                                       THEN (self.indent_col + spaces) % (U16Max + 1)
                                       ELSE self.indent_col,
                        is_indenting |-> self.is_indenting,
                        attempting |-> self.attempting])
    ELSE line_too_long(self.attempting, self)

\* ---------------------------------------------------------------- failures
\* The closure problem_from_region is kept as the Fail it builds, less the
\* region: <<"Eof", attempting>> or <<"Unexpected", ch, attempting>>.
problem_from_region(closure, region) ==
    IF closure[1] = "Eof"
    THEN [reason |-> <<"Eof", region>>, attempting |-> closure[2]]
    ELSE [reason |-> <<"Unexpected", closure[2], region>>, attempting |-> closure[3]]

checked_unexpected(chars_consumed, state, closure) ==
    IF state.column + chars_consumed < U16Max
    THEN Err(problem_from_region(closure,
                                 Region(state.column, state.column + chars_consumed,
                                        state.line, state.line)),
             state)
    ELSE line_too_long(state.attempting, state)

unexpected_eof(chars_consumed, attempting, state) ==
    checked_unexpected(chars_consumed, state, <<"Eof", attempting>>)

unexpected(ch, chars_consumed, state, attempting) ==
    checked_unexpected(chars_consumed, state, <<"Unexpected", ch, attempting>>)

\* ---------------------------------------------------------------- closures
\* The closures a caller hands to map, satisfies and and_then, by name.
MapFn(f, output) ==
    CASE f = "wrap"  -> <<"wrapped", output>>
      [] f = "const" -> <<"const">>

Predicate(f, output) ==
    CASE f = "accept" -> TRUE
      [] f = "reject" -> FALSE

Transform(f, output) ==
    CASE f = "then_x"     -> [op |-> "char", expected |-> "x"]
      [] f = "then_val"   -> [op |-> "val", value |-> output]
      [] f = "then_space" -> [op |-> "attempt", attempting |-> "Def",
                              parser |-> [op |-> "char", expected |-> " "]]

\* ---------------------------------------------------------------- parsers
RECURSIVE Parse(_, _)

val(value, state) == Ok(value, state)

and_then(parser, transform, state) ==
    LET r == Parse(parser, state) IN
    IF r.kind = "Ok"
    THEN Traced(Parse(Transform(transform, r.out), r.state), r.ltl)
    ELSE r

map(parser, transform, state) ==
    LET r == Parse(parser, state) IN
    IF r.kind = "Ok" THEN [r EXCEPT !.out = MapFn(transform, r.out)] ELSE r

map_with_arena(parser, transform, state) ==
    LET r == Parse(parser, state) IN
    IF r.kind = "Ok" THEN [r EXCEPT !.out = MapFn(transform, r.out)] ELSE r

attempt(attempting, parser, state) ==
    Parse(parser, [state EXCEPT !.attempting = attempting])

loc(parser, state) ==
    LET start_col == state.column
        start_line == state.line
        r == Parse(parser, state)
    IN  IF r.kind = "Ok"
        THEN [r EXCEPT !.out = [region |-> Region(start_col, r.state.column,
                                                  start_line, r.state.line),
                                value |-> r.out]]
        ELSE r

\* the loop of zero_or_more and one_or_more, entered after the first success.
\* A successful attempt that returns the state it was given is followed by
\* the same attempt for ever: the loop has no other exit than the Err arm.
\* variant: the loop returns the state it made the failing attempt on
RECURSIVE repeat_rewinding(_, _, _)
repeat_rewinding(parser, state, buf) ==
    LET r == Parse(parser, state) IN
    CASE r.kind = "Ok" ->
            IF r.state = state
            THEN Traced(Loop(state), r.ltl)
            ELSE Traced(repeat_rewinding(parser, r.state, Append(buf, r.out)), r.ltl)
      [] r.kind = "Err" -> Traced(Ok(buf, state), r.ltl)
      [] OTHER -> r

RECURSIVE repeat(_, _, _)
repeat(parser, state, buf) ==
    LET r == Parse(parser, state) IN
    CASE r.kind = "Ok" ->
            IF r.state = state
            THEN Traced(Loop(state), r.ltl)
            ELSE Traced(repeat(parser, r.state, Append(buf, r.out)), r.ltl)
      [] r.kind = "Err" -> Traced(Ok(buf, r.state), r.ltl)
      [] OTHER -> r

\* variant: zero_or_more hands the failure of the first attempt on
zero_or_more_failing(parser, state) ==
    LET r == Parse(parser, state) IN
    CASE r.kind = "Ok"  -> Traced(repeat(parser, r.state, <<r.out>>), r.ltl)
      [] OTHER -> r

zero_or_more(parser, state) ==
    LET r == Parse(parser, state) IN
    CASE r.kind = "Ok"  -> Traced(repeat(parser, r.state, <<r.out>>), r.ltl)
      [] r.kind = "Err" -> Traced(Ok(<<>>, r.state), r.ltl)
      [] OTHER -> r

\* variant: one_or_more reports Eof without the check of the column
one_or_more_eof(parser, state) ==
    LET r == Parse(parser, state) IN
    CASE r.kind = "Ok"  -> Traced(repeat(parser, r.state, <<r.out>>), r.ltl)
      [] r.kind = "Err" ->
            Traced(Err([reason |-> <<"Eof", Region(r.state.column, r.state.column,
                                                   r.state.line, r.state.line)>>,
                        attempting |-> r.state.attempting], r.state), r.ltl)
      [] OTHER -> r

one_or_more(parser, state) ==
    LET r == Parse(parser, state) IN
    CASE r.kind = "Ok"  -> Traced(repeat(parser, r.state, <<r.out>>), r.ltl)
      [] r.kind = "Err" -> Traced(unexpected_eof(0, r.state.attempting, r.state), r.ltl)
      [] OTHER -> r

\* variant: char advances the way spaces do
char_indenting(expected, state) ==
    IF state.input # <<>>
    THEN IF expected = FirstChar(state.input)
         THEN advance_spaces(state, 1, FALSE)
         ELSE unexpected(FirstChar(state.input), 0, state, "Keyword")
    ELSE unexpected_eof(0, "Keyword", state)

char(expected, state) ==
    IF state.input # <<>>
    THEN IF expected = FirstChar(state.input)
         THEN advance_without_indenting(state, 1)
         ELSE unexpected(FirstChar(state.input), 0, state, "Keyword")
    ELSE unexpected_eof(0, "Keyword", state)

string(str, state) ==
    IF Len(str) <= InputLen(state.input) /\ StartsWith(state.input, str)
    THEN advance_without_indenting(state, Len(str))
    ELSE unexpected_eof(0, "Keyword", state)

satisfies(parser, predicate, state) ==
    LET r == Parse(parser, state) IN
    CASE r.kind = "Ok" /\ Predicate(predicate, r.out) -> r
      [] r.kind \in {"Ok", "Err"} ->
            Traced(Err([reason |-> <<"ConditionFailed">>, attempting |-> state.attempting],
                       state),
                   r.ltl)
      [] OTHER -> r

\* variant: the Fail of the inner parser is returned as it is
Restore_nothing(r, original_attempting) == r

\* Fail { attempting: original_attempting, ..fail }
Restore(r, original_attempting) ==
    [r EXCEPT !.fail.attempting = original_attempting]

and(p1, p2, state) ==
    LET original_attempting == state.attempting
        r1 == Parse(p1, state)
    IN  CASE r1.kind = "Ok" ->
                LET r2 == Traced(Parse(p2, r1.state), r1.ltl) IN
                CASE r2.kind = "Ok"  -> [r2 EXCEPT !.out = <<r1.out, r2.out>>]
                  [] r2.kind = "Err" -> Restore(r2, original_attempting)
                  [] OTHER -> r2
          [] r1.kind = "Err" -> Restore(r1, original_attempting)
          [] OTHER -> r1

either(p1, p2, state) ==
    LET original_attempting == state.attempting
        r1 == Parse(p1, state)
    IN  CASE r1.kind = "Ok" -> [r1 EXCEPT !.out = <<"First", r1.out>>]
          [] r1.kind = "Err" ->
                LET r2 == Traced(Parse(p2, r1.state), r1.ltl) IN
                CASE r2.kind = "Ok"  -> [r2 EXCEPT !.out = <<"Second", r2.out>>]
                  [] r2.kind = "Err" -> Restore(r2, original_attempting)
                  [] OTHER -> r2
          [] OTHER -> r1

skip_first(p1, p2, state) ==
    LET original_attempting == state.attempting
        r1 == Parse(p1, state)
    IN  CASE r1.kind = "Ok" ->
                LET r2 == Traced(Parse(p2, r1.state), r1.ltl) IN
                CASE r2.kind = "Err" -> Restore(r2, original_attempting)
                  [] OTHER -> r2
          [] r1.kind = "Err" -> Restore(r1, original_attempting)
          [] OTHER -> r1

optional(parser, state) ==
    LET r == Parse(parser, state) IN
    CASE r.kind = "Ok"  -> [r EXCEPT !.out = <<"Some", r.out>>]
      [] r.kind = "Err" -> Traced(Ok(<<"None">>, r.state), r.ltl)
      [] OTHER -> r

\* variant: every alternative is entered with the state of the call
RECURSIVE one_of_from_rewinding(_, _, _, _)
one_of_from_rewinding(ps, i, state, original_attempting) ==
    LET r == Parse(ps[i], state) IN
    CASE r.kind = "Ok" -> r
      [] r.kind = "Err" ->
            IF i = Len(ps)
            THEN Restore(r, original_attempting)
            ELSE Traced(one_of_from_rewinding(ps, i + 1, state, original_attempting), r.ltl)
      [] OTHER -> r

\* one_of2 .. one_of8: the nested matches, alternative i of ps entered with
\* the state the failure of alternative i - 1 returned.
RECURSIVE one_of_from(_, _, _, _)
one_of_from(ps, i, state, original_attempting) ==
    LET r == Parse(ps[i], state) IN
    CASE r.kind = "Ok" -> r
      [] r.kind = "Err" ->
            IF i = Len(ps)
            THEN Restore(r, original_attempting)
            ELSE Traced(one_of_from(ps, i + 1, r.state, original_attempting), r.ltl)
      [] OTHER -> r

one_of(ps, state) == one_of_from(ps, 1, state, state.attempting)

sep_by0(delimiter, parser, state) ==
    zero_or_more([op |-> "skip_first", p1 |-> delimiter, p2 |-> parser], state)

sep_by1(delimiter, parser, state) ==
    one_or_more([op |-> "skip_first", p1 |-> delimiter, p2 |-> parser], state)

\* Parser::parse
Parse(p, state) ==
    CASE p.op = "val"            -> val(p.value, state)
      [] p.op = "char"           -> char(p.expected, state)
      [] p.op = "string"         -> string(p.str, state)
      [] p.op = "and_then"       -> and_then(p.parser, p.transform, state)
      [] p.op = "map"            -> map(p.parser, p.transform, state)
      [] p.op = "map_with_arena" -> map_with_arena(p.parser, p.transform, state)
      [] p.op = "attempt"        -> attempt(p.attempting, p.parser, state)
      [] p.op = "loc"            -> loc(p.parser, state)
      [] p.op = "zero_or_more"   -> zero_or_more(p.parser, state)
      [] p.op = "one_or_more"    -> one_or_more(p.parser, state)
      [] p.op = "satisfies"      -> satisfies(p.parser, p.predicate, state)
      [] p.op = "and"            -> and(p.p1, p.p2, state)
      [] p.op = "either"         -> either(p.p1, p.p2, state)
      [] p.op = "skip_first"     -> skip_first(p.p1, p.p2, state)
      [] p.op = "optional"       -> optional(p.parser, state)
      [] p.op = "one_of"         -> one_of(p.ps, state)
      [] p.op = "sep_by0"        -> sep_by0(p.delimiter, p.parser, state)
      [] p.op = "sep_by1"        -> sep_by1(p.delimiter, p.parser, state)

\* ---------------------------------------------------------------- inputs
\* Attempting tags a caller starts a parse with ("Keyword" is the tag char
\* and string put in their Fail, "Def" the tag used with attempt below).
Tags == {"Module", "Expr"}

\* The states at which the model takes over a parse.  Each is State::new
\* or a state the State methods reach from State::new on a long line:
\*   1  State::new on "   x";
\*   2  a line of more than 65535 spaces, after advance_spaces over all but
\*      the last Margin + Beyond of them;
\*   3  a line of more than 65535 x, followed by a second line, after
\*      advance_without_indenting over all but the last Margin + Beyond x;
\*   4  State::new on two line ends, a line of two spaces and the line "xx".
Starts ==
    << [input |-> <<Run(" ", 3), Run("x", 1)>>,
        column |-> 0, indent_col |-> 1, is_indenting |-> TRUE],
       [input |-> <<Run(" ", Margin + Beyond), Run("x", 1)>>,
        column |-> U16Max - Margin, indent_col |-> U16Max - Margin + 1,
        is_indenting |-> TRUE],
       [input |-> <<Run("x", Margin + Beyond), Run("\n", 1), Run(" ", 2), Run("x", 1)>>,
        column |-> U16Max - Margin, indent_col |-> 1, is_indenting |-> FALSE],
       [input |-> <<Run("\n", 2), Run(" ", 2), Run("\n", 1), Run("x", 2)>>,
        column |-> 0, indent_col |-> 1, is_indenting |-> TRUE] >>

\* the line a parse is at when the model takes over: the first line, or
\* the last but one line a 32-bit counter can number
LastButOne == U32(U16Max, U16Max - 1)
StartLines == <<{U32Zero}, {U32Zero}, {LastButOne}, {U32Zero, LastButOne}>>

\* quantities handed to advance_without_indenting and advance_spaces
Quantities == {1, 2, Margin, Margin + 1}

P_val == [op |-> "val", value |-> <<"v">>]
P_sp  == [op |-> "char", expected |-> " "]
P_x   == [op |-> "char", expected |-> "x"]
P_nl  == [op |-> "char", expected |-> "\n"]
P_xx  == [op |-> "string", str |-> <<"x", "x">>]
P_ss  == [op |-> "string", str |-> <<" ", " ">>]
P_e   == [op |-> "string", str |-> <<>>]
P_att(parser) == [op |-> "attempt", attempting |-> "Def", parser |-> parser]
P_and(p1, p2) == [op |-> "and", p1 |-> p1, p2 |-> p2]
P_either(p1, p2) == [op |-> "either", p1 |-> p1, p2 |-> p2]
P_skip(p1, p2) == [op |-> "skip_first", p1 |-> p1, p2 |-> p2]
P_one_of(ps) == [op |-> "one_of", ps |-> ps]
P_un(op, parser) == [op |-> op, parser |-> parser]
P_sat(parser, predicate) == [op |-> "satisfies", parser |-> parser, predicate |-> predicate]
P_map(op, parser, transform) == [op |-> op, parser |-> parser, transform |-> transform]
P_sep(op, delimiter, parser) == [op |-> op, delimiter |-> delimiter, parser |-> parser]

\* the parsers a step may run
ParserList ==
    << P_val, P_sp, P_x, P_nl, P_xx, P_ss, P_e,
       P_att(P_x), P_att(P_val),
       P_and(P_sp, P_x), P_and(P_att(P_x), P_sp), P_and(P_x, P_att(P_sp)),
       P_and(P_un("zero_or_more", P_sp), P_x),
       P_and(P_un("zero_or_more", P_sp), P_val),
       P_either(P_sp, P_x), P_either(P_xx, P_val),
       P_either(P_att(P_sp), P_att(P_x)),
       P_either(P_either(P_xx, P_sp), P_nl),
       P_skip(P_sp, P_x), P_skip(P_att(P_x), P_att(P_sp)),
       P_one_of(<<P_xx, P_val>>),
       P_one_of(<<P_att(P_sp), P_att(P_x)>>),
       P_one_of(<<P_xx, P_att(P_ss), P_nl>>),
       P_one_of(<<P_ss, P_xx, P_nl, P_att(P_x)>>),
       P_one_of(<<P_nl, P_ss, P_xx, P_att(P_sp), P_x>>),
       P_one_of(<<P_nl, P_nl, P_ss, P_xx, P_att(P_sp), P_x>>),
       P_one_of(<<P_nl, P_nl, P_nl, P_ss, P_xx, P_att(P_sp), P_x>>),
       P_one_of(<<P_nl, P_nl, P_nl, P_nl, P_ss, P_xx, P_att(P_sp), P_x>>),
       P_un("optional", P_sp), P_un("optional", P_xx),
       P_un("zero_or_more", P_sp), P_un("zero_or_more", P_xx),
       P_un("zero_or_more", P_and(P_sp, P_sp)),
       P_un("zero_or_more", P_att(P_x)),
       P_un("zero_or_more", P_val),
       P_un("zero_or_more", P_un("optional", P_x)),
       P_un("one_or_more", P_sp), P_un("one_or_more", P_att(P_x)),
       P_un("one_or_more", P_val),
       P_sat(P_sp, "accept"), P_sat(P_sp, "reject"), P_sat(P_xx, "accept"),
       P_map("map", P_sp, "wrap"),
       P_map("map_with_arena", P_un("zero_or_more", P_sp), "const"),
       P_map("and_then", P_x, "then_space"),
       P_map("and_then", P_un("zero_or_more", P_sp), "then_x"),
       P_map("and_then", P_att(P_xx), "then_val"),
       P_un("loc", P_xx), P_un("loc", P_x),
       P_sep("sep_by0", P_sp, P_x), P_sep("sep_by1", P_sp, P_x),
       P_sep("sep_by1", P_att(P_sp), P_x) >>

\* ---------------------------------------------------------------- machine
VARIABLES
    st,     \* the State the next call is made on
    pre,    \* the State the last call was made on
    op,     \* the last call
    res,    \* what the last call returned
    prev,   \* how the call before it ended: Ok, or the kind of its failure
    debug   \* the build has debug assertions

\* the solver's caller (module.rs)
VARIABLES
    solve_in,   \* the arguments of run_solve and the exposed variables
    solved,     \* what run_solve returned: the solved Subs and the problems
    types_out,  \* what make_solved_types returned
    stored_out  \* what exposed_types_storage_subs returned

\* the code emitter (gen/mod.rs)
VARIABLES
    gen         \* the function under construction and the lowering in progress

parser_vars == <<st, pre, op, res, prev, debug>>
solve_vars == <<solve_in, solved, types_out, stored_out>>
vars == <<parser_vars, solve_vars, gen>>

\* what a variable holds while its machine does not run
Idle == [pc |-> "idle"]

NoCall == [name |-> "none"]

Init ==
    /\ \E i \in 1..Len(Starts), attempting \in Tags :
       \E line \in StartLines[i] :
          st = [NewState(Starts[i].input, attempting) EXCEPT
                    !.line = line,
                    !.column = Starts[i].column,
                    !.indent_col = Starts[i].indent_col,
                    !.is_indenting = Starts[i].is_indenting]
    /\ pre = st
    /\ op = NoCall
    /\ res = Ok(Unit, st)
    /\ prev = "Ok"
    /\ debug \in BOOLEAN
    /\ solve_in = Idle /\ solved = Idle /\ types_out = Idle /\ stored_out = Idle
    /\ gen = Idle

\* the caller holds a state and is about to make a call on it
Ready == op = NoCall

Ending(r) == IF r.kind = "Err" THEN r.fail.reason[1] ELSE r.kind

Return(call, r) ==
    /\ pre' = st
    /\ op' = call
    /\ res' = r
    /\ st' = r.state
    /\ UNCHANGED <<prev, debug, solve_vars, gen>>

\* state.newline(), called on a line end
Newline ==
    /\ Ready
    /\ st.input # <<>> /\ FirstChar(st.input) = "\n"
    /\ Return([name |-> "newline"], newline(st))

\* state.advance_without_indenting(quantity), within the input
AdvanceWithoutIndenting ==
    /\ Ready
    /\ \E quantity \in Quantities :
          /\ quantity <= InputLen(st.input)
          /\ Return([name |-> "advance_without_indenting", n |-> quantity],
                    advance_without_indenting(st, quantity))

\* state.advance_spaces(spaces), over spaces
AdvanceSpaces ==
    /\ Ready
    /\ \E spaces \in Quantities :
          /\ LeadingSpaces(st.input, spaces)
          /\ Return([name |-> "advance_spaces", n |-> spaces],
                    advance_spaces(st, spaces, debug))

\* parser.parse(arena, state)
RunParser ==
    /\ Ready
    /\ \E i \in 1..Len(ParserList) :
          Return([name |-> "parse", parser |-> ParserList[i]], Parse(ParserList[i], st))

\* The caller takes the state a call returned, with its Ok or with its Err,
\* as the state of its next call; nothing follows a panic or an endless loop.
Resume ==
    /\ ~Ready
    /\ res.kind \in {"Ok", "Err"}
    /\ op' = NoCall
    /\ pre' = st
    /\ res' = Ok(Unit, st)
    /\ prev' = Ending(res)
    /\ UNCHANGED <<st, debug, solve_vars, gen>>

Next == Newline \/ AdvanceWithoutIndenting \/ AdvanceSpaces \/ RunParser \/ Resume

Spec == Init /\ [][Next]_vars

\* ------------------------------------------------- the repetition, by steps
\* zero_or_more(p) and one_or_more(p), one match of their body at a time.
\* op holds the call (name, parser), the position in its body (pc), the
\* vector buf and a trace flag, idle: an attempt of p returned Ok with as
\* much input as it was given.  st is the local `state`, pre the state of
\* the call; res is what parser.parse(arena, state) returned to the match
\* that comes next and, once the function has returned, its value.

\* attempts of p the loop is followed for beyond those that the length of
\* the input allows when every success takes a character
MaxIdle == 2

\* the outer match of both functions, on the result r of the first
\* attempt: the position it leaves, `state`, `buf`, the value returned
first_match(name, r, state) ==
    CASE r.kind = "Ok"  ->
            [pc |-> "loop", state |-> r.state, buf |-> <<r.out>>, ret |-> r]
      [] r.kind = "Err" ->
            [pc |-> "returned", state |-> r.state, buf |-> <<>>,
             ret |-> IF name = "zero_or_more"
                     THEN Ok(<<>>, r.state)
                     ELSE unexpected_eof(0, r.state.attempting, r.state)]
      [] r.kind = "Panic" ->
            [pc |-> "unwound", state |-> r.state, buf |-> <<>>, ret |-> r]
      [] OTHER ->
            [pc |-> "diverged", state |-> state, buf |-> <<>>, ret |-> r]

\* variant: the loop does not take the state the attempt returned
loop_match_keeping_state(r, state, buf) ==
    CASE r.kind = "Ok"  ->
            [pc |-> "loop", state |-> state, buf |-> Append(buf, r.out), ret |-> r]
      [] r.kind = "Err" ->
            [pc |-> "returned", state |-> r.state, buf |-> buf,
             ret |-> Ok(buf, r.state)]
      [] r.kind = "Panic" ->
            [pc |-> "unwound", state |-> r.state, buf |-> buf, ret |-> r]
      [] OTHER ->
            [pc |-> "diverged", state |-> state, buf |-> buf, ret |-> r]

\* the match in the loop, on the result r of one more attempt
loop_match(r, state, buf) ==
    CASE r.kind = "Ok"  ->
            [pc |-> "loop", state |-> r.state, buf |-> Append(buf, r.out), ret |-> r]
      [] r.kind = "Err" ->
            [pc |-> "returned", state |-> r.state, buf |-> buf,
             ret |-> Ok(buf, r.state)]
      [] r.kind = "Panic" ->
            [pc |-> "unwound", state |-> r.state, buf |-> buf, ret |-> r]
      [] OTHER ->
            [pc |-> "diverged", state |-> state, buf |-> buf, ret |-> r]

\* the states of Init
StartStates ==
    UNION { UNION { { [NewState(Starts[i].input, attempting) EXCEPT
                          !.line = line,
                          !.column = Starts[i].column,
                          !.indent_col = Starts[i].indent_col,
                          !.is_indenting = Starts[i].is_indenting]
                      : line \in StartLines[i] }
                    : attempting \in Tags }
            : i \in 1..Len(Starts) }

\* zero_or_more(p) or one_or_more(p) is called on a state and makes its
\* first attempt
InitLoop ==
    /\ st \in StartStates
    /\ pre = st
    /\ debug \in BOOLEAN
    /\ \E name \in {"zero_or_more", "one_or_more"}, i \in 1..Len(ParserList) :
          op = [name |-> name, parser |-> ParserList[i],
                pc |-> "first", buf |-> <<>>, idle |-> FALSE]
    /\ res = Parse(op.parser, st)
    /\ prev = "Ok"
    /\ solve_in = Idle /\ solved = Idle /\ types_out = Idle /\ stored_out = Idle
    /\ gen = Idle

\* the match moves `state` and `buf`
Match(m) ==
    /\ st' = m.state
    /\ op' = [op EXCEPT !.pc = m.pc, !.buf = m.buf,
                        !.idle = @ \/ (m.pc = "loop"
                                       /\ InputLen(m.state.input) = InputLen(st.input))]

FirstMatch ==
    /\ op.pc = "first"
    /\ Match(first_match(op.name, res, st))

LoopMatch ==
    /\ op.pc = "loop"
    /\ Len(op.buf) < InputLen(pre.input) + MaxIdle
    /\ Match(loop_match(res, st, op.buf))

\* after its match the loop attempts p on the new `state`, or the function
\* is left
FirstAttempt ==
    /\ FirstMatch
    /\ res' = IF op'.pc = "loop"
              THEN Parse(op.parser, st')
              ELSE first_match(op.name, res, st).ret
    /\ UNCHANGED <<pre, prev, debug, solve_vars, gen>>

LoopAttempt ==
    /\ LoopMatch
    /\ res' = IF op'.pc = "loop"
              THEN Parse(op.parser, st')
              ELSE loop_match(res, st, op.buf).ret
    /\ UNCHANGED <<pre, prev, debug, solve_vars, gen>>

NextLoop == FirstAttempt \/ LoopAttempt

SpecLoop == InitLoop /\ [][NextLoop]_vars

\* The body is sequential code: the match on a result that has been
\* returned to it is made.
SpecLoopFair ==
    SpecLoop /\ WF_<<st, op>>(FirstMatch) /\ WF_<<st, op>>(LoopMatch)

\* ================================================================ solver
\* module.rs: run_solve, make_solved_types, exposed_types_storage_subs.
\* Subs, the solver proper, SolvedType and StorageSubs are used by module.rs
\* and defined elsewhere; they are modelled here by their contracts.

\* -------------------------------------------------------------- Subs
\* Content of a type variable
FlexVar == <<"FlexVar">>
RigidVar(name) == <<"RigidVar", name>>
Structure(name, args) == <<"Structure", name, args>>
ErrorContent == <<"Error">>

\* A Subs: the content of every variable and the variable it was merged
\* into (itself while it is a root).
SubsOf(contents) ==
    [content |-> contents, link |-> [v \in 1..Len(contents) |-> v]]

RECURSIVE Root(_, _)
Root(subs, var) ==
    IF subs.link[var] = var THEN var ELSE Root(subs, subs.link[var])

get(subs, var) == subs.content[Root(subs, var)]

set_content(subs, var, content) ==
    [subs EXCEPT !.content[Root(subs, var)] = content]

\* Subs::rigid_var: var becomes a rigid variable of that name
rigid_var(subs, var, name) ==
    [subs EXCEPT !.content[var] = RigidVar(name), !.link[var] = var]

\* var1 is merged into var2
union(subs, var1, var2) ==
    [subs EXCEPT !.link[Root(subs, var1)] = Root(subs, var2)]

\* -------------------------------------------------------------- solve::run
\* The solver walks the constraint, a sequence of equalities between
\* variables here, binds flexible variables, and collects a TypeError for
\* every mismatch without stopping; a rigid variable unifies with nothing
\* but itself and flexible variables, and keeps its content.
TypeError(var1, var2) == <<"TypeError", var1, var2>>

RECURSIVE unify(_, _, _)
RECURSIVE unify_args(_, _, _, _)
unify(acc, var1, var2) ==
    LET subs == acc.subs
        r1 == Root(subs, var1)
        r2 == Root(subs, var2)
        c1 == subs.content[r1]
        c2 == subs.content[r2]
        mismatch ==
            LET e1 == IF c1[1] = "RigidVar" THEN subs ELSE set_content(subs, r1, ErrorContent)
                e2 == IF c2[1] = "RigidVar" THEN e1 ELSE set_content(e1, r2, ErrorContent)
            IN  [subs |-> e2, problems |-> Append(acc.problems, TypeError(var1, var2))]
    IN
    CASE r1 = r2 -> acc
      [] c1 = FlexVar -> [acc EXCEPT !.subs = union(subs, r1, r2)]
      [] c2 = FlexVar -> [acc EXCEPT !.subs = union(subs, r2, r1)]
      [] c1 = ErrorContent /\ c2[1] # "RigidVar" -> [acc EXCEPT !.subs = union(subs, r2, r1)]
      [] c2 = ErrorContent /\ c1[1] # "RigidVar" -> [acc EXCEPT !.subs = union(subs, r1, r2)]
      [] c1 = ErrorContent \/ c2 = ErrorContent -> acc
      [] c1[1] = "Structure" /\ c2[1] = "Structure"
            /\ c1[2] = c2[2] /\ Len(c1[3]) = Len(c2[3]) ->
            LET inner == unify_args(acc, c1[3], c2[3], 1)
            IN  [inner EXCEPT !.subs = union(inner.subs, r1, r2)]
      [] OTHER -> mismatch

unify_args(acc, args1, args2, i) ==
    IF i > Len(args1) THEN acc
    ELSE unify_args(unify(acc, args1[i], args2[i]), args1, args2, i + 1)

RECURSIVE solve(_, _, _)
solve(acc, constraint, i) ==
    IF i > Len(constraint) THEN acc
    ELSE solve(unify(acc, constraint[i][1], constraint[i][2]), constraint, i + 1)

\* solve::run(constraints, &env, &mut problems, subs, &mut aliases, &constraint)
solve_run(problems, subs, constraint) ==
    solve([subs |-> subs, problems |-> problems], constraint, 1)

\* -------------------------------------------------------------- run_solve
\* for (var, name) in rigid_variables.named { subs.rigid_var(var, name); }
RECURSIVE register_named(_, _, _)
register_named(subs, named, i) ==
    IF i > Len(named) THEN subs
    ELSE register_named(rigid_var(subs, named[i][1], named[i][2]), named, i + 1)

\* for var in rigid_variables.wildcards { subs.rigid_var(var, "*".into()); }
RECURSIVE register_wildcards(_, _, _)
register_wildcards(subs, wildcards, i) ==
    IF i > Len(wildcards) THEN subs
    ELSE register_wildcards(rigid_var(subs, wildcards[i], "*"), wildcards, i + 1)

\* variant: the solver runs before the rigid variables are registered
run_solve_registering_last(constraint, rigid_variables, subs) ==
    LET r == solve_run(<<>>, subs, constraint)
        with_named == register_named(r.subs, rigid_variables.named, 1)
        with_wildcards == register_wildcards(with_named, rigid_variables.wildcards, 1)
    IN  [pc |-> "returned", subs |-> with_wildcards, problems |-> r.problems]

run_solve(constraint, rigid_variables, subs) ==
    LET with_named == register_named(subs, rigid_variables.named, 1)
        with_wildcards == register_wildcards(with_named, rigid_variables.wildcards, 1)
        r == solve_run(<<>>, with_wildcards, constraint)
    IN  [pc |-> "returned", subs |-> r.subs, problems |-> r.problems]

\* -------------------------------------------------------------- SolvedType
\* SolvedType::new(solved_subs, var): the type of var as a tree that holds
\* no variable of the Subs but the flexible ones it could not resolve
RECURSIVE SolvedType_new(_, _)
SolvedType_new(solved_subs, var) ==
    LET content == get(solved_subs, var) IN
    CASE content[1] = "FlexVar" -> <<"Flex", Root(solved_subs, var)>>
      [] content[1] = "RigidVar" -> <<"Rigid", content[2]>>
      [] content[1] = "Structure" ->
            <<"Apply", content[2],
              [i \in 1..Len(content[3]) |-> SolvedType_new(solved_subs, content[3][i])]>>
      [] OTHER -> <<"Error">>

\* MutMap::default() and MutMap::insert
EmptyMap == [symbol \in {} |-> <<>>]
insert(mut_map, symbol, value) == (symbol :> value) @@ mut_map

\* variant: the first exposed pair is passed over
RECURSIVE make_solved_types_from(_, _, _, _)
make_solved_types_from(solved_subs, exposed_vars_by_symbol, solved_types, i) ==
    IF i > Len(exposed_vars_by_symbol) THEN solved_types
    ELSE LET symbol == exposed_vars_by_symbol[i][1]
             var == exposed_vars_by_symbol[i][2]
             solved_type == SolvedType_new(solved_subs, var)
         IN  make_solved_types_from(solved_subs, exposed_vars_by_symbol,
                                    insert(solved_types, symbol, solved_type), i + 1)

make_solved_types_skipping(solved_subs, exposed_vars_by_symbol) ==
    make_solved_types_from(solved_subs, exposed_vars_by_symbol, EmptyMap, 2)

make_solved_types(solved_subs, exposed_vars_by_symbol) ==
    make_solved_types_from(solved_subs, exposed_vars_by_symbol, EmptyMap, 1)

\* -------------------------------------------------------------- StorageSubs
\* StorageSubs::new(Subs::new()): no variable, nothing copied yet. copies
\* holds, for the variables of the source already imported, their copy.
StorageSubs_new == [subs |-> SubsOf(<<>>), copies |-> EmptyMap]

fresh(storage_subs, content) ==
    [storage_subs EXCEPT
        !.subs = [content |-> Append(storage_subs.subs.content, content),
                  link |-> Append(storage_subs.subs.link,
                                  Len(storage_subs.subs.content) + 1)]]

\* StorageSubs::import_variable_from(source, var): a copy of all that var
\* reaches in the source; a variable of the source already copied is not
\* copied again.
RECURSIVE import_variable_from(_, _, _)
RECURSIVE import_args(_, _, _, _, _)
import_variable_from(storage_subs, source, var) ==
    LET root == Root(source, var)
        content == source.content[root]
    IN
    IF root \in DOMAIN storage_subs.copies
    THEN [storage_subs |-> storage_subs, variable |-> storage_subs.copies[root]]
    ELSE LET variable == Len(storage_subs.subs.content) + 1
             reserved == [fresh(storage_subs, FlexVar) EXCEPT
                             !.copies = insert(storage_subs.copies, root, variable)]
         IN  IF content[1] = "Structure"
             THEN LET a == import_args(reserved, source, content[3], <<>>, 1)
                  IN  [storage_subs |->
                          [a.storage_subs EXCEPT
                              !.subs.content[variable] = Structure(content[2], a.args)],
                       variable |-> variable]
             ELSE [storage_subs |-> [reserved EXCEPT !.subs.content[variable] = content],
                   variable |-> variable]

import_args(storage_subs, source, args, copied, i) ==
    IF i > Len(args) THEN [storage_subs |-> storage_subs, args |-> copied]
    ELSE LET r == import_variable_from(storage_subs, source, args[i])
         IN  import_args(r.storage_subs, source, args, Append(copied, r.variable), i + 1)

\* variant: every exposed variable is imported into a StorageSubs of its own
RECURSIVE exposed_types_storage_subs_apart(_, _, _, _)
exposed_types_storage_subs_apart(subs, exposed_vars_by_symbol, acc, i) ==
    IF i > Len(exposed_vars_by_symbol) THEN acc
    ELSE LET symbol == exposed_vars_by_symbol[i][1]
             var == exposed_vars_by_symbol[i][2]
             r == import_variable_from(StorageSubs_new, subs, var)
         IN  exposed_types_storage_subs_apart(subs, exposed_vars_by_symbol,
                [storage_subs |-> r.storage_subs,
                 stored_vars_by_symbol |->
                     Append(acc.stored_vars_by_symbol, <<symbol, r.variable>>)],
                i + 1)

\* the loop of exposed_types_storage_subs
RECURSIVE import_exposed(_, _, _, _)
import_exposed(subs, exposed_vars_by_symbol, acc, i) ==
    IF i > Len(exposed_vars_by_symbol) THEN acc
    ELSE LET symbol == exposed_vars_by_symbol[i][1]
             var == exposed_vars_by_symbol[i][2]
             r == import_variable_from(acc.storage_subs, subs, var)
         IN  import_exposed(subs, exposed_vars_by_symbol,
                [storage_subs |-> r.storage_subs,
                 stored_vars_by_symbol |->
                     Append(acc.stored_vars_by_symbol, <<symbol, r.variable>>)],
                i + 1)

exposed_types_storage_subs(solved_subs, exposed_vars_by_symbol) ==
    import_exposed(solved_subs, exposed_vars_by_symbol,
                   [storage_subs |-> StorageSubs_new, stored_vars_by_symbol |-> <<>>], 1)

\* -------------------------------------------------------------- inputs
\* The Subs constraint generation hands over: variables 1 to 3 are fresh,
\* 4 is fresh or a number type, 5 and 6 are lists over 3 or 4.
Integer == Structure("Int.Integer", <<>>)
FloatingPoint == Structure("Float.FloatingPoint", <<>>)

InputSubs ==
    { SubsOf(<<FlexVar, FlexVar, FlexVar, c4,
               Structure("List.List", <<3>>), Structure("List.List", <<a6>>)>>) :
        c4 \in {FlexVar, Integer, FloatingPoint}, a6 \in {3, 4} }

\* The rigid variables of the annotations: every variable is named or a
\* wildcard, never both, and a name map holds a variable once.
InputRigids ==
    { [named |-> n, wildcards |-> w] :
        n \in { <<>>, << <<1, "a">> >>, << <<1, "a">>, <<2, "b">> >>,
                << <<2, "a">>, <<1, "a">> >> },
        w \in { <<>>, <<3>>, <<2, 3>> } }
    \ { [named |-> n, wildcards |-> <<2, 3>>] :
          n \in { << <<1, "a">>, <<2, "b">> >>, << <<2, "a">>, <<1, "a">> >> } }

\* the equalities a constraint is made of
Equalities == { <<1, 2>>, <<1, 4>>, <<2, 3>>, <<4, 3>>, <<5, 6>> }

MaxConstraints == 2

RECURSIVE ConstraintsOf(_)
ConstraintsOf(n) ==
    IF n = 0 THEN { <<>> }
    ELSE LET shorter == ConstraintsOf(n - 1)
         IN  shorter \cup { Append(c, e) : c \in shorter, e \in Equalities }

\* the exposed symbols of a module, each with its variable; a module
\* exposes a symbol once
InputExposed ==
    { <<>>, << <<"f", 5>> >>, << <<"f", 5>>, <<"g", 6>> >>,
      << <<"g", 6>>, <<"f", 5>>, <<"h", 1>> >>,
      << <<"f", 4>>, <<"g", 5>>, <<"h", 5>> >> }

\* -------------------------------------------------------------- machine
\* the parser and the emitter do not run
SolveOnly ==
    /\ st = NewState(<<>>, "Module")
    /\ pre = st
    /\ op = NoCall
    /\ res = Ok(Unit, st)
    /\ prev = "Ok"
    /\ debug = FALSE
    /\ gen = Idle

InitSolve ==
    /\ SolveOnly
    /\ \E subs \in InputSubs, rigid_variables \in InputRigids,
          constraint \in ConstraintsOf(MaxConstraints),
          exposed_vars_by_symbol \in InputExposed :
          solve_in = [pc |-> "input",
                      subs |-> subs,
                      rigid_variables |-> rigid_variables,
                      constraint |-> constraint,
                      exposed_vars_by_symbol |-> exposed_vars_by_symbol]
    /\ solved = Idle
    /\ types_out = Idle
    /\ stored_out = Idle

\* run_solve(constraints, constraint, rigid_variables, subs, aliases)
RunSolve ==
    /\ solve_in # Idle
    /\ solved = Idle
    /\ solved' = run_solve(solve_in.constraint, solve_in.rigid_variables, solve_in.subs)
    /\ UNCHANGED <<parser_vars, solve_in, types_out, stored_out, gen>>

\* make_solved_types(&solved_subs, &exposed_vars_by_symbol)
MakeSolvedTypes ==
    /\ solved # Idle
    /\ types_out = Idle
    /\ types_out' = [pc |-> "returned",
                     solved_types |->
                         make_solved_types(solved.subs, solve_in.exposed_vars_by_symbol)]
    /\ UNCHANGED <<parser_vars, solve_in, solved, stored_out, gen>>

\* exposed_types_storage_subs(&mut solved_subs, &exposed_vars_by_symbol)
ExposedTypesStorageSubs ==
    /\ solved # Idle
    /\ stored_out = Idle
    /\ stored_out' =
          [pc |-> "returned"] @@
          exposed_types_storage_subs(solved.subs, solve_in.exposed_vars_by_symbol)
    /\ UNCHANGED <<parser_vars, solve_in, solved, types_out, gen>>

NextSolve == RunSolve \/ MakeSolvedTypes \/ ExposedTypesStorageSubs

SpecSolve == InitSolve /\ [][NextSolve]_vars

\* ================================================================ emitter
\* gen/mod.rs: compile_expr and what it calls. The function under
\* construction is a sequence of basic blocks, the first its entry block; the
\* main builder appends at the end of block `at`.

\* -------------------------------------------------------------- types
\* env.subs: the types the literals and the bound names can have
NumInt == 3
NumFloat == 4
Unresolved == 6

GenSubs ==
    SubsOf(<<Integer, FloatingPoint,
             Structure("Num.Num", <<1>>), Structure("Num.Num", <<2>>),
             Structure("Str.Str", <<>>), FlexVar>>)

Good(x) == <<"Ok", x>>
Fatal(message) == <<"Panic", message>>

num_to_basic_type(content) ==
    IF content[1] = "Structure"
    THEN CASE content[2] = "Float.FloatingPoint" /\ content[3] = <<>> -> Good("f64")
           [] content[2] = "Int.Integer" /\ content[3] = <<>> -> Good("i64")
           [] OTHER -> <<"Err">>
    ELSE Fatal("TODO handle num_to_basic_type")

content_to_basic_type(content, subs) ==
    IF content[1] = "Structure"
    THEN IF content[2] = "Num.Num"
         THEN num_to_basic_type(get(subs, content[3][1]))
         ELSE Fatal("TODO handle content_to_basic_type")
    ELSE <<"Err">>

\* -------------------------------------------------------------- values
Const(ty, num) == [ty |-> ty, v |-> <<"const", num>>]
Reg(ty, id) == [ty |-> ty, v |-> <<"reg", id>>]
NoValue == [ty |-> "none", v |-> <<>>]

\* -------------------------------------------------------------- Scope
\* ImMap<Symbol, (Content, PointerValue)>
EmptyScope == [symbol \in {} |-> <<>>]
scope_insert(scope, symbol, content, ptr) ==
    (symbol :> [content |-> content, ptr |-> ptr]) @@ scope

content_from_expr(scope, subs, expr) ==
    CASE expr.e \in {"Int", "Float"} -> Good(get(subs, expr.var))
      [] expr.e = "Str" -> Good(Structure("Str.Str", <<>>))
      [] expr.e = "Var" ->
            IF expr.symbol \in DOMAIN scope
            THEN Good(scope[expr.symbol].content)
            ELSE Fatal("Couldn't find")
      [] OTHER -> Fatal("TODO handle content_from_expr")

\* -------------------------------------------------------------- builder
Block(name) == [name |-> name, instrs |-> <<>>]

\* builder.build_*: the instruction goes to the end of the insert block
build(g, instr) ==
    [g EXCEPT !.blocks[g.at].instrs = Append(@, instr)]

\* context.append_basic_block(parent, name)
append_basic_block(g, name) ==
    [g EXCEPT !.blocks = Append(@, Block(name))]

\* variant: the alloca goes to the end of the entry block
create_entry_block_alloca_at_end(g, basic_type, name) ==
    [g EXCEPT !.blocks[1].instrs =
                  Append(@, [op |-> "alloca", id |-> g.next, ty |-> basic_type, name |-> name]),
              !.next = @ + 1]

\* a builder of its own, positioned before the first instruction of the
\* entry block, or at its end when it has none; the pointer is register
\* g.next
create_entry_block_alloca(g, basic_type, name) ==
    LET entry == g.blocks[1]
        alloca == [op |-> "alloca", id |-> g.next, ty |-> basic_type, name |-> name]
    IN  [g EXCEPT !.blocks[1].instrs =
                      IF entry.instrs # <<>> THEN <<alloca>> \o @ ELSE Append(@, alloca),
                  !.next = @ + 1]

\* -------------------------------------------------------------- compile_expr
\* The recursion of compile_expr is kept on a stack: an "eval" frame is a
\* call of compile_expr not yet started, any other frame is a call waiting
\* for the value of the call above it, which g.val holds when it returns.
Eval(expr, scope) == [k |-> "eval", expr |-> expr, scope |-> scope]

Top(g) == g.stack[Len(g.stack)]
Below(g) == SubSeq(g.stack, 1, Len(g.stack) - 1)

panic(g, message) == [g EXCEPT !.pc = "panic", !.panic = message]

\* the value is handed to the caller; the outermost call returns
yield(g, value) ==
    [g EXCEPT !.stack = Below(g), !.val = value,
              !.pc = IF Len(g.stack) = 1 THEN "done" ELSE "run"]

\* Int_(_, num) and Float_(_, num)
compile_literal(g) ==
    LET expr == Top(g).expr IN
    yield(g, Const(IF expr.e = "Int" THEN "i64" ELSE "f64", expr.num))

\* Var: a load from the pointer the scope holds for the symbol
compile_var(g) ==
    LET expr == Top(g).expr
        scope == Top(g).scope
    IN  IF expr.symbol \in DOMAIN scope
        THEN LET ptr == scope[expr.symbol].ptr
                 loaded == build(g, [op |-> "load", id |-> g.next, ptr |-> ptr])
             IN  yield([loaded EXCEPT !.next = @ + 1, !.loads = Append(@, ptr.v[2])],
                       Reg(ptr.pointee, g.next))
        ELSE panic(g, "Could not find a var")

\* any other expression
compile_unsupported(g) == panic(g, "I don't yet know how to compile")

\* LetNonRec, up to the call of compile_expr for the bound expression
compile_let(g) ==
    LET expr == Top(g).expr
        scope == Top(g).scope
        content == content_from_expr(scope, g.subs, expr.expr)
    IN  IF expr.pattern # "Identifier"
        THEN panic(g, "TODO code gen complex pattern")
        ELSE IF content[1] = "Panic"
        THEN panic(g, content[2])
        ELSE [g EXCEPT !.stack =
                 Below(g) \o <<[k |-> "let_bound", symbol |-> expr.symbol,
                                content |-> content[2], ret |-> expr.ret,
                                scope |-> scope],
                               Eval(expr.expr, scope)>>]

\* variant: the body is compiled under the scope of the let itself
let_bound_keeping_scope(g) ==
    LET frame == Top(g)
        expr_bt == content_to_basic_type(frame.content, g.subs)
    IN  IF expr_bt[1] # "Ok"
        THEN panic(g, "Error converting symbol to basic type")
        ELSE LET alloca == [ty |-> "ptr", v |-> <<"reg", g.next>>, pointee |-> expr_bt[2]]
                 allocated == create_entry_block_alloca(g, expr_bt[2], frame.symbol)
                 stored == build(allocated, [op |-> "store", ptr |-> alloca, val |-> g.val])
             IN  [stored EXCEPT !.stack = Below(g) \o <<Eval(frame.ret, frame.scope)>>,
                                !.val = NoValue,
                                !.slots = Append(@, g.next)]

\* LetNonRec, from the value of the bound expression on: the alloca, the
\* store, and the body under the extended scope
let_bound(g) ==
    LET frame == Top(g)
        expr_bt == content_to_basic_type(frame.content, g.subs)
    IN  IF expr_bt[1] # "Ok"
        THEN panic(g, "Error converting symbol to basic type")
        ELSE LET alloca == [ty |-> "ptr", v |-> <<"reg", g.next>>, pointee |-> expr_bt[2]]
                 allocated == create_entry_block_alloca(g, expr_bt[2], frame.symbol)
                 stored == build(allocated, [op |-> "store", ptr |-> alloca, val |-> g.val])
                 scope == scope_insert(frame.scope, frame.symbol, frame.content, alloca)
             IN  [stored EXCEPT !.stack = Below(g) \o <<Eval(frame.ret, scope)>>,
                                !.val = NoValue,
                                !.slots = Append(@, g.next)]

\* the record of a When the properties read: its blocks, its values, and
\* how far its lowering has come
NewWhen(expr) ==
    [phases |-> <<"compiling-scrutinee">>, expr |-> expr, scrutinee |-> NoValue,
     cmp_bb |-> 0, comparison |-> NoValue,
     then_bb |-> 0, else_bb |-> 0, cont_bb |-> 0, then_from |-> 0, else_from |-> 0,
     phi |-> 0, merged_at |-> 0]

\* When, up to the call of compile_expr for the scrutinee
compile_when(g) ==
    LET expr == Top(g).expr
        scope == Top(g).scope
    IN  IF Len(expr.branches) < 2
        THEN panic(g, "TODO support when-expressions of fewer than 2 branches")
        ELSE IF Len(expr.branches) > 2
        THEN panic(g, "TODO support when-expressions of more than 2 branches")
        ELSE [g EXCEPT !.stack =
                 Below(g) \o <<[k |-> "when_cond", pattern |-> expr.branches[1].pattern,
                                branch_expr |-> expr.branches[1].expr,
                                else_expr |-> expr.branches[2].expr,
                                scope |-> scope, id |-> Len(g.whens) + 1],
                               Eval(expr.cond, scope)>>,
                        !.whens = Append(@, NewWhen(expr))]

\* builder.build_int_compare / build_float_compare: two constants are
\* folded, anything else is an instruction
build_compare(g, predicate, lhs, rhs) ==
    IF lhs.v[1] = "const"
    THEN [g |-> g, comparison |-> Const("i1", lhs.v[2] = rhs.v[2])]
    ELSE [g |-> [build(g, [op |-> predicate, id |-> g.next, lhs |-> lhs, rhs |-> rhs])
                    EXCEPT !.next = @ + 1],
          comparison |-> Reg("i1", g.next)]

\* compile_when_branch from the value of the scrutinee on, and two_way_branch
\* up to the call of compile_expr for the first branch
compile_when_branch(g) ==
    LET frame == Top(g)
        cond == g.val
        matched == \/ cond.ty = "f64" /\ frame.pattern.p = "FloatLiteral"
                   \/ cond.ty = "i64" /\ frame.pattern.p = "IntLiteral"
        c == build_compare(g, IF cond.ty = "f64" THEN "fcmp oeq" ELSE "icmp eq",
                           cond, Const(cond.ty, frame.pattern.num))
        then_bb == Len(g.blocks) + 1
        else_bb == Len(g.blocks) + 2
        cont_bb == Len(g.blocks) + 3
        appended == append_basic_block(append_basic_block(append_basic_block(c.g,
                        "then"), "else"), "casecont")
        branched == build(appended, [op |-> "condbr", cond |-> c.comparison,
                                     then_bb |-> then_bb, else_bb |-> else_bb])
    IN  IF ~matched
        THEN panic(g, "TODO support pattern matching on other than literals")
        ELSE [branched EXCEPT
                 !.at = then_bb,
                 !.val = NoValue,
                 !.stack = Below(g) \o
                     <<[k |-> "then_done", else_expr |-> frame.else_expr,
                        scope |-> frame.scope, else_bb |-> else_bb, cont_bb |-> cont_bb,
                        basic |-> cond.ty, id |-> frame.id],
                       Eval(frame.branch_expr, frame.scope)>>,
                 !.whens[frame.id] =
                     [@ EXCEPT !.cmp_bb = g.at, !.comparison = c.comparison,
                               !.scrutinee = cond,
                               !.then_bb = then_bb, !.else_bb = else_bb,
                               !.cont_bb = cont_bb]]

\* variant: the phi gets the block the first branch started in
two_way_branch_then_first_block(g) ==
    LET frame == Top(g)
        then_bb == frame.else_bb - 1
        branched == build(g, [op |-> "br", dest |-> frame.cont_bb])
    IN  [branched EXCEPT
            !.at = frame.else_bb,
            !.val = NoValue,
            !.stack = Below(g) \o
                <<[k |-> "else_done", then_val |-> g.val, then_bb |-> then_bb,
                   cont_bb |-> frame.cont_bb, basic |-> frame.basic, id |-> frame.id],
                  Eval(frame.else_expr, frame.scope)>>,
            !.whens[frame.id] = [@ EXCEPT !.phases = Append(@, "built-then"), !.then_from = g.at]]

\* two_way_branch from the value of the first branch on, up to the call of
\* compile_expr for the else branch
two_way_branch_then(g) ==
    LET frame == Top(g)
        branched == build(g, [op |-> "br", dest |-> frame.cont_bb])
        then_bb == branched.at
    IN  [branched EXCEPT
            !.at = frame.else_bb,
            !.val = NoValue,
            !.stack = Below(g) \o
                <<[k |-> "else_done", then_val |-> g.val, then_bb |-> then_bb,
                   cont_bb |-> frame.cont_bb, basic |-> frame.basic, id |-> frame.id],
                  Eval(frame.else_expr, frame.scope)>>,
            !.whens[frame.id] = [@ EXCEPT !.phases = Append(@, "built-then"), !.then_from = g.at]]

\* two_way_branch from the value of the else branch on
two_way_branch_else(g) ==
    LET frame == Top(g)
        branched == build(g, [op |-> "br", dest |-> frame.cont_bb])
        else_bb == branched.at
    IN  [branched EXCEPT
            !.at = frame.cont_bb,
            !.val = NoValue,
            !.stack = Below(g) \o
                <<[k |-> "merge", then_val |-> frame.then_val, then_bb |-> frame.then_bb,
                   else_val |-> g.val, else_bb |-> else_bb,
                   basic |-> frame.basic, id |-> frame.id]>>,
            !.whens[frame.id] = [@ EXCEPT !.phases = Append(@, "built-else"), !.else_from = g.at]]

\* compile_when_branch after two_way_branch: the phi, of the type of the
\* scrutinee, and its two incoming pairs. LLVM checks the types of the
\* incoming values only when built with assertions.
build_phi(g) ==
    LET frame == Top(g)
        phi == [op |-> "phi", id |-> g.next, ty |-> frame.basic,
                incoming |-> << <<frame.then_val, frame.then_bb>>,
                                <<frame.else_val, frame.else_bb>> >>]
    IN  IF g.asserts /\ {frame.then_val.ty, frame.else_val.ty} # {frame.basic}
        THEN panic(g, "PHI operand type")
        ELSE yield([build(g, phi) EXCEPT
                        !.next = @ + 1,
                        !.whens[frame.id] = [@ EXCEPT !.phases = Append(@, "merged"), !.phi = g.next,
                                                     !.merged_at = g.at]],
                    Reg(frame.basic, g.next))

\* -------------------------------------------------------------- inputs
\* expressions as canonicalization leaves them
Int_(num) == [e |-> "Int", var |-> NumInt, num |-> num]
Float_(num) == [e |-> "Float", var |-> NumFloat, num |-> num]
Str == [e |-> "Str"]
Var(symbol) == [e |-> "Var", symbol |-> symbol]
LetNonRec(symbol, expr, ret) ==
    [e |-> "LetNonRec", pattern |-> "Identifier", symbol |-> symbol,
     expr |-> expr, ret |-> ret]
IntLiteral(num) == [p |-> "IntLiteral", num |-> num]
FloatLiteral(num) == [p |-> "FloatLiteral", num |-> num]
Underscore == [p |-> "Underscore", num |-> 0]
Branch(pattern, expr) == [pattern |-> pattern, expr |-> expr]
When(cond, pattern, branch_expr, else_expr) ==
    [e |-> "When", cond |-> cond,
     branches |-> <<Branch(pattern, branch_expr), Branch(Underscore, else_expr)>>]

Exprs ==
    << Int_(7), Float_(1), Var("y"), Str,
       LetNonRec("n", Int_(7), Var("n")),
       When(Int_(2), IntLiteral(2), Int_(10), Int_(20)),
       When(Int_(3), IntLiteral(2), Int_(10), Int_(20)),
       When(Float_(1), FloatLiteral(1), Float_(5), Float_(6)),
       When(Int_(2), IntLiteral(2), Float_(5), Float_(6)),
       When(Float_(1), FloatLiteral(2), Int_(10), Int_(20)),
       When(Int_(2), FloatLiteral(2), Int_(10), Int_(20)),
       When(Str, IntLiteral(2), Int_(10), Int_(20)),
       [e |-> "When", cond |-> Int_(2), branches |-> <<Branch(IntLiteral(2), Int_(10))>>],
       [e |-> "When", cond |-> Int_(2),
        branches |-> <<Branch(IntLiteral(2), Int_(10)), Branch(IntLiteral(3), Int_(20)),
                       Branch(Underscore, Int_(30))>>],
       LetNonRec("x", Int_(2), When(Var("x"), IntLiteral(2), Int_(10), Int_(20))),
       LetNonRec("x", Float_(2), When(Var("x"), FloatLiteral(2), Var("x"), Float_(3))),
       When(Int_(2), IntLiteral(2), When(Int_(1), IntLiteral(1), Int_(3), Int_(4)), Int_(20)),
       When(Int_(2), IntLiteral(2), Int_(10), When(Int_(1), IntLiteral(1), Int_(3), Int_(4))),
       When(When(Int_(1), IntLiteral(1), Int_(2), Int_(3)), IntLiteral(2),
            When(Int_(1), IntLiteral(1), Int_(3), Int_(4)),
            When(Int_(5), IntLiteral(1), Int_(6), Int_(7))),
       When(Int_(2), IntLiteral(2), LetNonRec("s", Int_(1), Var("s")), Var("s")),
       When(Int_(2), IntLiteral(2), LetNonRec("s", Int_(1), Var("s")), Int_(20)),
       LetNonRec("s", Int_(1),
           When(Var("s"), IntLiteral(1), LetNonRec("s", Int_(5), Var("s")), Var("s"))),
       LetNonRec("s", Var("s"), Var("s")),
       LetNonRec("s", Int_(1), LetNonRec("t", Var("s"), LetNonRec("s", Float_(2), Var("s")))),
       LetNonRec("s", Int_(1), LetNonRec("s", Var("s"), Var("s"))),
       LetNonRec("s", When(Int_(2), IntLiteral(2), Int_(10), Int_(20)), Var("s")),
       LetNonRec("s", When(Var("s"), IntLiteral(2), Int_(10), Int_(20)), Var("s")),
       LetNonRec("s", LetNonRec("t", Int_(1), Var("t")), Var("s")),
       LetNonRec("s", Str, Var("s")),
       LetNonRec("u", [e |-> "Int", var |-> Unresolved, num |-> 1], Var("u")),
       [e |-> "LetNonRec", pattern |-> "Underscore", symbol |-> "s",
        expr |-> Int_(1), ret |-> Int_(2)],
       When(LetNonRec("c", Int_(2), Var("c")), IntLiteral(2),
            LetNonRec("a", Int_(1), Var("a")), LetNonRec("b", Int_(2), Var("b"))),
       When(Int_(2), IntLiteral(2),
            LetNonRec("a", Int_(1), When(Var("a"), IntLiteral(1), Var("a"), Int_(3))),
            LetNonRec("b", Int_(4), LetNonRec("c", Var("b"), Var("c")))),
       LetNonRec("x", Int_(1),
           When(Var("x"), IntLiteral(1),
                When(Var("x"), IntLiteral(2), LetNonRec("y", Var("x"), Var("y")), Var("x")),
                Var("x"))) >>

\* -------------------------------------------------------------- machine
\* the parser and the solver do not run
GenOnly ==
    /\ st = NewState(<<>>, "Module")
    /\ pre = st
    /\ op = NoCall
    /\ res = Ok(Unit, st)
    /\ prev = "Ok"
    /\ debug = FALSE
    /\ solve_in = Idle /\ solved = Idle /\ types_out = Idle /\ stored_out = Idle

\* compile_standalone_expr(env, parent, expr): an empty scope, the builder at
\* the end of the entry block of parent, which holds nothing yet
compile_standalone_expr(expr, asserts) ==
    [pc |-> "run", panic |-> "", expr |-> expr, subs |-> GenSubs, asserts |-> asserts,
     blocks |-> <<Block("entry")>>, at |-> 1, next |-> 1,
     stack |-> <<Eval(expr, EmptyScope)>>, val |-> NoValue,
     whens |-> <<>>, loads |-> <<>>, slots |-> <<>>]

InitGen ==
    /\ GenOnly
    /\ \E i \in 1..Len(Exprs), asserts \in BOOLEAN :
          gen = compile_standalone_expr(Exprs[i], asserts)

\* the call of compile_expr to start, or the call waiting for a value
Running(k) == gen.pc = "run" /\ Top(gen).k = k
Compiling(forms) == Running("eval") /\ Top(gen).expr.e \in forms

Step(g) == gen' = g /\ UNCHANGED <<parser_vars, solve_vars>>

CompileLiteral == Compiling({"Int", "Float"}) /\ Step(compile_literal(gen))
CompileVar == Compiling({"Var"}) /\ Step(compile_var(gen))
CompileUnsupported == Compiling({"Str"}) /\ Step(compile_unsupported(gen))
CompileLet == Compiling({"LetNonRec"}) /\ Step(compile_let(gen))
LetBound == Running("let_bound") /\ Step(let_bound(gen))
CompileWhen == Compiling({"When"}) /\ Step(compile_when(gen))
CompileWhenBranch == Running("when_cond") /\ Step(compile_when_branch(gen))
TwoWayBranchThen == Running("then_done") /\ Step(two_way_branch_then(gen))
TwoWayBranchElse == Running("else_done") /\ Step(two_way_branch_else(gen))
BuildPhi == Running("merge") /\ Step(build_phi(gen))

NextGen ==
    \/ CompileLiteral \/ CompileVar \/ CompileUnsupported
    \/ CompileLet \/ LetBound
    \/ CompileWhen \/ CompileWhenBranch \/ TwoWayBranchThen \/ TwoWayBranchElse
    \/ BuildPhi

SpecGen == InitGen /\ [][NextGen]_vars

\* ---------------------------------------------------------------- claims
\* the parser of the last call, when it was a parse
Ran(name) == op.name = "parse" /\ op.parser.op = name

\* the text a run-length encoded input stands for
RECURSIVE Expand(_)
Expand(input) ==
    IF input = <<>> THEN <<>>
    ELSE <<Head(input).ch>> \o Expand(Slice(input, 1))

\* p has to consume at least one character to return Ok
RECURSIVE MustConsume(_)
MustConsume(p) ==
    CASE p.op = "char" -> TRUE
      [] p.op = "string" -> p.str # <<>>
      [] p.op \in {"val", "optional", "zero_or_more", "sep_by0"} -> FALSE
      [] p.op \in {"and", "skip_first"} -> MustConsume(p.p1) \/ MustConsume(p.p2)
      [] p.op = "either" -> MustConsume(p.p1) /\ MustConsume(p.p2)
      [] p.op = "one_of" -> \A i \in 1..Len(p.ps) : MustConsume(p.ps[i])
      [] p.op = "sep_by1" -> MustConsume(p.delimiter) \/ MustConsume(p.parser)
      [] OTHER -> MustConsume(p.parser)

C2_LineTooLongReachesTop ==
    (op.name = "parse" /\ res.ltl)
        => /\ res.kind = "Err"
           /\ res.fail.reason = <<"LineTooLong", pre.line>>

\* the state the last successful attempt of p in a row from s returned
\* (s itself when the first attempt fails)
RECURSIVE LastGood(_, _)
LastGood(p, s) ==
    LET r == Parse(p, s) IN
    IF r.kind = "Ok" /\ r.state # s THEN LastGood(p, r.state) ELSE s

\* the outputs of the successful attempts of p in a row from s
RECURSIVE Outputs(_, _)
Outputs(p, s) ==
    LET r == Parse(p, s) IN
    IF r.kind = "Ok" /\ r.state # s THEN <<r.out>> \o Outputs(p, r.state) ELSE <<>>

\* C3 as stated: zero_or_more(p) returns the state from before the failing
\* attempt of p, the state after the last successful one.
C3_ReturnsStateBeforeFailingAttempt ==
    (Ran("zero_or_more") /\ res.kind = "Ok")
        => res.state = LastGood(op.parser.parser, pre)

\* C3 amended: zero_or_more(p) returns, with the outputs of the successful
\* attempts, the state that the failing attempt of p returned with its Err.
C3_ReturnsStateOfFailingAttempt ==
    (Ran("zero_or_more") /\ res.kind = "Ok")
        => LET p == op.parser.parser
               failing == Parse(p, LastGood(p, pre))
           IN  /\ failing.kind = "Err"
               /\ res.state = failing.state
               /\ res.out = Outputs(p, pre)

C3_Witness ==
    /\ Ran("zero_or_more")
    /\ res.kind = "Ok"
    /\ Len(res.out) >= 1
    /\ res.state # LastGood(op.parser.parser, pre)

\* C4: an Err of and, skip_first, either or one_of2..8 carries the attempting
\* tag of the state the combinator was entered with.
C4_FailKeepsAttemptingOfEntry ==
    (/\ op.name = "parse"
     /\ op.parser.op \in {"and", "skip_first", "either", "one_of"}
     /\ res.kind = "Err")
        => res.fail.attempting = pre.attempting

C4_Witness ==
    /\ Ran("one_of")
    /\ Len(op.parser.ps) = 8
    /\ res.kind = "Err"
    /\ res.state.attempting = "Def"
    /\ res.fail.attempting = pre.attempting
    /\ pre.attempting = "Expr"

\* C5: an Err of and_then, one_or_more, sep_by0 or sep_by1 carries the
\* attempting tag of the state the combinator was entered with.
C5_StitchedFailKeepsAttemptingOfEntry ==
    (/\ op.name = "parse"
     /\ op.parser.op \in {"and_then", "one_or_more", "sep_by0", "sep_by1"}
     /\ res.kind = "Err")
        => res.fail.attempting = pre.attempting

\* scenario S2: State::new on "   x", and the state zero_or_more(char(' '))
\* returns on it
S2Input == <<Run(" ", 3), Run("x", 1)>>
S2AfterSpaces(attempting) ==
    Parse(P_un("zero_or_more", P_sp), NewState(S2Input, attempting)).state

\* C6 as stated: in scenario S2 the spaces parser yields 3 units and char('x')
\* ends in column = 4, indent_col = 4, is_indenting = false.
C6_ScenarioS2IndentCol4 ==
    /\ (op.name = "parse" /\ op.parser = P_un("zero_or_more", P_sp)
            /\ pre = NewState(S2Input, pre.attempting))
          => res.kind = "Ok" /\ Len(res.out) = 3
    /\ (op.name = "parse" /\ op.parser = P_x /\ pre = S2AfterSpaces(pre.attempting))
          => /\ res.kind = "Ok"
             /\ st.column = 4 /\ st.indent_col = 4 /\ st.is_indenting = FALSE

\* C6 amended: in scenario S2 the spaces parser yields 3 units and char('x')
\* ends in column = 4, indent_col = 1, is_indenting = false.
C6_ScenarioS2IndentCol1 ==
    /\ (op.name = "parse" /\ op.parser = P_un("zero_or_more", P_sp)
            /\ pre = NewState(S2Input, pre.attempting))
          => res.kind = "Ok" /\ Len(res.out) = 3
    /\ (op.name = "parse" /\ op.parser = P_x /\ pre = S2AfterSpaces(pre.attempting))
          => /\ res.kind = "Ok"
             /\ st.column = 4 /\ st.indent_col = 1 /\ st.is_indenting = FALSE

C6_Witness ==
    /\ op.name = "parse" /\ op.parser = P_x
    /\ pre = S2AfterSpaces(pre.attempting)
    /\ pre.column = 3
    /\ res.kind = "Ok"

\* C7: every state a call is made on or returns, with Ok or with Err,
\* has indent_col <= column + 1.
C7_IndentColWithinColumn ==
    /\ st.indent_col <= st.column + 1
    /\ pre.indent_col <= pre.column + 1
    /\ res.state.indent_col <= res.state.column + 1

C7_Witness ==
    /\ op.name = "newline"
    /\ res.kind = "Ok"
    /\ pre.indent_col > 1
    /\ pre.indent_col = pre.column + 1
    /\ st.indent_col = st.column + 1

\* b is the 32-bit number a + 1
IsSuccessor(a, b) ==
    \/ a.lo < U16Max /\ b = U32(a.hi, a.lo + 1)
    \/ a.lo = U16Max /\ a.hi < U16Max /\ b = U32(a.hi + 1, 0)

\* C8: newline() below line 2^32 - 1 returns Ok with line + 1, column 0,
\* indent_col 1, is_indenting true, the input advanced by one and attempting
\* unchanged; on line 2^32 - 1 it returns Err TooManyLines and the line
\* counter does not wrap.
C8_Newline ==
    op.name = "newline"
        => IF pre.line # U32Max
           THEN /\ res.kind = "Ok"
                /\ IsSuccessor(pre.line, st.line)
                /\ st.column = 0
                /\ st.indent_col = 1
                /\ st.is_indenting = TRUE
                /\ Expand(st.input) = Tail(Expand(pre.input))
                /\ st.attempting = pre.attempting
           ELSE /\ res.kind = "Err"
                /\ res.fail.reason = <<"TooManyLines">>
                /\ st.line = U32Max

C8_Witness ==
    /\ op.name = "newline"
    /\ res.kind = "Ok"
    /\ pre.column > 0 /\ pre.is_indenting = FALSE
    /\ st.line = U32Max

\* C9: advance_without_indenting(n) and advance_spaces(n) succeed exactly
\* when column + n <= 65535 and fail with LineTooLong otherwise; on success
\* the first adds n to column, clears is_indenting and keeps line,
\* indent_col and attempting, the second adds n to column, keeps
\* is_indenting and adds n to indent_col exactly when is_indenting is true.
C9_Advance ==
    /\ op.name = "advance_without_indenting"
          => IF pre.column + op.n <= U16Max
             THEN /\ res.kind = "Ok"
                  /\ st.column = pre.column + op.n
                  /\ st.is_indenting = FALSE
                  /\ st.line = pre.line
                  /\ st.indent_col = pre.indent_col
                  /\ st.attempting = pre.attempting
             ELSE res.kind = "Err" /\ res.fail.reason[1] = "LineTooLong"
    /\ op.name = "advance_spaces"
          => IF pre.column + op.n <= U16Max
             THEN /\ res.kind = "Ok"
                  /\ st.column = pre.column + op.n
                  /\ st.is_indenting = pre.is_indenting
                  /\ st.indent_col = IF pre.is_indenting
                                     THEN pre.indent_col + op.n
                                     ELSE pre.indent_col
             ELSE res.kind = "Err" /\ res.fail.reason[1] = "LineTooLong"

\* char, string and the alternations over them
RECURSIVE OverCharAndString(_)
OverCharAndString(p) ==
    CASE p.op \in {"char", "string"} -> TRUE
      [] p.op = "either" -> OverCharAndString(p.p1) /\ OverCharAndString(p.p2)
      [] p.op = "one_of" -> \A i \in 1..Len(p.ps) : OverCharAndString(p.ps[i])
      [] OTHER -> FALSE

\* C10 as stated: on the state newline() returned with TooManyLines, char,
\* string and the alternations over them fail.
C10_TooManyLinesIsSticky ==
    (prev = "TooManyLines" /\ op.name = "parse" /\ OverCharAndString(op.parser))
        => res.kind # "Ok"

\* C10 amended: newline() returns with TooManyLines the state it was called
\* on, unchanged, and below column 65535 the char parser of the next
\* character of the input returns Ok on it.
C10_TooManyLinesLeavesState ==
    (op.name = "newline" /\ res.kind = "Err")
        => /\ res.fail.reason = <<"TooManyLines">>
           /\ st = pre
           /\ st.column < U16Max
                 => Parse([op |-> "char", expected |-> FirstChar(st.input)], st).kind = "Ok"

C10_Witness ==
    /\ op.name = "newline"
    /\ res.kind = "Err"
    /\ st.column < U16Max

C12_OneOrMoreOkOrEof ==
    Ran("one_or_more")
        => LET first == Parse(op.parser.parser, pre) IN
           /\ first.kind = "Ok"
                 => /\ res.kind = "Ok"
                    /\ res.out = Outputs(op.parser.parser, pre)
           /\ first.kind = "Err"
                 => /\ res.kind = "Err"
                    /\ res.fail.reason[1] = "Eof"

\* C12 amended: when the first attempt of p fails, one_or_more(p) returns Err
\* on the state of that failure: with reason Eof over the empty region at its
\* position when its column is below 65535, with LineTooLong(line) when its
\* column is 65535. When the first attempt succeeds, one_or_more(p) never
\* returns Err, and when it returns it returns the outputs of the successful
\* attempts in a row, in order; it does not return when an attempt succeeds
\* on a state and returns that same state.
C12_OneOrMoreOkOrEofBelowLimit ==
    Ran("one_or_more")
        => LET first == Parse(op.parser.parser, pre) IN
           /\ first.kind = "Ok"
                 => /\ res.kind \in {"Ok", "Loop"}
                    /\ res.kind = "Ok" => res.out = Outputs(op.parser.parser, pre)
                    /\ res.kind = "Ok" => Len(res.out) >= 1
                    /\ res.kind = "Loop"
                          <=> Parse(op.parser.parser, LastGood(op.parser.parser, pre)).kind = "Ok"
           /\ first.kind = "Err"
                 => /\ res.kind = "Err"
                    /\ res.state.input = first.state.input
                    /\ res.state.line = first.state.line
                    /\ first.state.column < U16Max
                          => /\ res.state = first.state
                             /\ res.fail.reason =
                                   <<"Eof", Region(first.state.column, first.state.column,
                                                   first.state.line, first.state.line)>>
                    /\ first.state.column = U16Max
                          => /\ res.state.column = U16Max
                             /\ res.fail.reason = <<"LineTooLong", first.state.line>>

C12_Witness ==
    /\ Ran("one_or_more")
    /\ Parse(op.parser.parser, pre).kind = "Err"
    /\ Parse(op.parser.parser, pre).state.column = U16Max
    /\ res.kind = "Err"
    /\ res.fail.reason[1] = "LineTooLong"

\* the cascade either(p1, either(p2, ... pN)) of the alternatives from i on
RECURSIVE Cascade(_, _)
Cascade(ps, i) ==
    IF i = Len(ps) THEN ps[i] ELSE P_either(ps[i], Cascade(ps, i + 1))

\* the output under the First and Second wrappers of n nested eithers
RECURSIVE Unwrapped(_, _)
Unwrapped(out, n) ==
    IF n = 0 THEN out
    ELSE IF out[1] = "First" THEN out[2] ELSE Unwrapped(out[2], n - 1)

\* C13: one_ofN(p1 .. pN) returns what the cascade either(p1, either(p2, ...
\* pN)) returns, up to the Either wrappers of the output: the same outcome,
\* output, state and Fail, an alternative being entered with the state the
\* failure of the one before it returned.
C13_OneOfIsCascadeOfEither ==
    Ran("one_of")
        => LET ps == op.parser.ps
               c  == Parse(Cascade(ps, 1), pre) IN
           /\ Len(ps) \in 2..8
           /\ c.kind = res.kind
           /\ c.state = res.state
           /\ c.fail = res.fail
           /\ res.kind = "Ok" => Unwrapped(c.out, Len(ps) - 1) = res.out

C13_Witness ==
    /\ Ran("one_of")
    /\ Len(op.parser.ps) >= 3
    /\ pre.column < U16Max
    /\ Parse(op.parser.ps[1], pre).kind = "Err"
    /\ Parse(op.parser.ps[1], pre).state # pre
    /\ res.kind = "Err"
    /\ res.state.column = U16Max

\* ------------------------------------------------------- claims, solver
\* the variables a rigid registration is about
RigidVars(rigid_variables) ==
    { rigid_variables.named[i][1] : i \in 1..Len(rigid_variables.named) }
        \cup { rigid_variables.wildcards[i] : i \in 1..Len(rigid_variables.wildcards) }

C15_OneSolvedTypePerExposedSymbol ==
    types_out # Idle
        => LET exposed == solve_in.exposed_vars_by_symbol
               solved_types == types_out.solved_types IN
           /\ DOMAIN solved_types = { exposed[i][1] : i \in 1..Len(exposed) }
           /\ Cardinality(DOMAIN solved_types) = Len(exposed)
           /\ \A i \in 1..Len(exposed) :
                 solved_types[exposed[i][1]] = SolvedType_new(solved.subs, exposed[i][2])

C15_Witness ==
    /\ types_out # Idle
    /\ Len(solve_in.exposed_vars_by_symbol) = 3
    /\ solved.problems # <<>>
    /\ types_out.solved_types["f"] # types_out.solved_types["g"]
    /\ types_out.solved_types["h"] = <<"Rigid", "a">>

\* the variables of src and of dst met side by side from var and variable
\* on, and whether the contents met are the same but for the variables
RECURSIVE SideBySide(_, _, _, _)
SideBySide(src, dst, var, variable) ==
    LET c == get(src, var)
        d == get(dst, variable)
        here == { <<Root(src, var), Root(dst, variable)>> }
    IN
    IF c[1] = "Structure"
    THEN IF d[1] = "Structure" /\ d[2] = c[2] /\ Len(d[3]) = Len(c[3])
         THEN here \cup UNION { SideBySide(src, dst, c[3][i], d[3][i]) : i \in 1..Len(c[3]) }
         ELSE here \cup { <<0, 0>> }
    ELSE IF c = d THEN here ELSE here \cup { <<0, 0>> }

Phases == <<"compiling-scrutinee", "built-then", "built-else", "merged">>

IsPrefix(a, b) == Len(a) <= Len(b) /\ a = SubSeq(b, 1, Len(a))

Last(instrs) == instrs[Len(instrs)]

\* the branches of a block, and the blocks that branch to dest
Terminators(block) ==
    { i \in 1..Len(block.instrs) : block.instrs[i].op \in {"br", "condbr"} }

BranchingTo(g, dest) ==
    { b \in 1..Len(g.blocks) :
        \E i \in 1..Len(g.blocks[b].instrs) :
            g.blocks[b].instrs[i] = [op |-> "br", dest |-> dest] }

\* the value of an arm that is a literal
ArmIs(value, expr) ==
    /\ expr.e = "Int" => value = Const("i64", expr.num)
    /\ expr.e = "Float" => value = Const("f64", expr.num)

\* the expression holds a When
RECURSIVE HasWhen(_)
HasWhen(expr) ==
    CASE expr.e = "When" -> TRUE
      [] expr.e = "LetNonRec" -> HasWhen(expr.expr) \/ HasWhen(expr.ret)
      [] OTHER -> FALSE

\* the block an arm that started in block first ends in: that block, or
\* the casecont block of the last When within the arm
ArmEndsIn(g, expr, first, last) ==
    IF HasWhen(expr)
    THEN last > first /\ g.blocks[last].name = "casecont"
    ELSE last = first

\* what C17 says of one When, as far as its lowering has come
WhenLowered(g, w) ==
    LET pattern == w.expr.branches[1].pattern
        cmp == g.blocks[w.cmp_bb].instrs
        cont == g.blocks[w.cont_bb].instrs IN
    /\ IsPrefix(w.phases, Phases)
    /\ g.pc = "done" => w.phases = Phases
    /\ w.then_bb # 0 =>
          /\ w.else_bb = w.then_bb + 1 /\ w.cont_bb = w.then_bb + 2
          /\ g.blocks[w.then_bb].name = "then"
          /\ g.blocks[w.else_bb].name = "else"
          /\ g.blocks[w.cont_bb].name = "casecont"
          /\ Terminators(g.blocks[w.cmp_bb]) = {Len(cmp)}
          /\ Last(cmp) = [op |-> "condbr", cond |-> w.comparison,
                          then_bb |-> w.then_bb, else_bb |-> w.else_bb]
          /\ w.comparison.v[1] = "const" =>
                /\ w.scrutinee.v[1] = "const"
                /\ w.comparison.v[2] = (w.scrutinee.v[2] = pattern.num)
          /\ w.comparison.v[1] = "reg" =>
                cmp[Len(cmp) - 1] =
                    [op |-> IF w.scrutinee.ty = "i64" THEN "icmp eq" ELSE "fcmp oeq",
                     id |-> w.comparison.v[2],
                     lhs |-> w.scrutinee, rhs |-> Const(w.scrutinee.ty, pattern.num)]
    /\ Len(w.phases) >= 2 =>
          /\ ArmEndsIn(g, w.expr.branches[1].expr, w.then_bb, w.then_from)
          /\ Terminators(g.blocks[w.then_from]) = {Len(g.blocks[w.then_from].instrs)}
          /\ Last(g.blocks[w.then_from].instrs) = [op |-> "br", dest |-> w.cont_bb]
    /\ Len(w.phases) >= 3 =>
          /\ ArmEndsIn(g, w.expr.branches[2].expr, w.else_bb, w.else_from)
          /\ Terminators(g.blocks[w.else_from]) = {Len(g.blocks[w.else_from].instrs)}
          /\ Last(g.blocks[w.else_from].instrs) = [op |-> "br", dest |-> w.cont_bb]
          /\ BranchingTo(g, w.cont_bb) = {w.then_from, w.else_from}
          /\ w.then_from # w.else_from
    /\ Len(w.phases) = 4 =>
          /\ w.merged_at = w.cont_bb
          /\ cont[1].op = "phi" /\ cont[1].id = w.phi
          /\ Len(cont[1].incoming) = 2
          /\ cont[1].incoming[1][2] = w.then_from
          /\ cont[1].incoming[2][2] = w.else_from
          /\ ArmIs(cont[1].incoming[1][1], w.expr.branches[1].expr)
          /\ ArmIs(cont[1].incoming[2][1], w.expr.branches[2].expr)
          /\ \A i \in 2..Len(cont) : cont[i].op # "phi"

\* C17: the lowering of a two-branch When passes compiling-scrutinee,
\* built-then, built-else and merged in that order and, unless it is cut
\* short by a fatal error, reaches merged with the builder at the end of its
\* casecont block; it appends the three blocks then, else and casecont; the
\* block of the comparison ends with the one conditional branch on scrutinee
\* = literal; each arm ends with the one branch to casecont; and the phi
\* pairs each arm's value with the block that branches to casecont.
C17_WhenLowering ==
    gen # Idle
        => /\ \A id \in 1..Len(gen.whens) : WhenLowered(gen, gen.whens[id])
           /\ Len(gen.blocks) =
                 1 + 3 * Cardinality({ id \in 1..Len(gen.whens) : gen.whens[id].then_bb # 0 })
           /\ (gen.pc = "done" /\ gen.expr.e = "When") => gen.at = gen.whens[1].cont_bb

C17_Witness ==
    /\ gen # Idle
    /\ gen.pc = "done"
    /\ \E id \in 1..Len(gen.whens) :
          /\ gen.whens[id].then_from # gen.whens[id].then_bb
          /\ gen.whens[id].else_from # gen.whens[id].else_bb
          /\ gen.whens[id].phases = Phases
    /\ \E id \in 1..Len(gen.whens) : gen.whens[id].comparison.v[1] = "reg"

\* C18: the phi of a two-branch When has the basic type of the values of
\* its two arms, whatever the kind of the scrutinee.
C18_PhiHasTypeOfArms ==
    gen # Idle
        => \A id \in 1..Len(gen.whens) :
              LET w == gen.whens[id] IN
              w.phases = Phases
                  => LET phi == gen.blocks[w.cont_bb].instrs[1] IN
                     /\ phi.ty = phi.incoming[1][1].ty
                     /\ phi.ty = phi.incoming[2][1].ty

\* the instructions of the entry block are allocas up to some place and
\* hold no alloca after it, and no other block holds an alloca
AllocasFirst(g) ==
    LET entry == g.blocks[1].instrs IN
    /\ \A i \in 1..Len(entry), j \in 1..Len(entry) :
          (i < j /\ entry[j].op = "alloca") => entry[i].op = "alloca"
    /\ \A b \in 2..Len(g.blocks) :
          \A i \in 1..Len(g.blocks[b].instrs) : g.blocks[b].instrs[i].op # "alloca"
    /\ Cardinality({ i \in 1..Len(entry) : entry[i].op = "alloca" }) = Len(g.slots)

\* C19: every alloca of a let is in the entry block, before every other
\* instruction of it, wherever the main builder stands; the step that binds
\* the name leaves the main builder where it was and puts the store of the
\* bound value at its end.
C19_Step ==
    /\ gen' # Idle => AllocasFirst(gen')
    /\ (Running("let_bound") /\ gen'.pc = "run")
          => LET ptr == [ty |-> "ptr", v |-> <<"reg", gen.next>>,
                         pointee |-> gen.val.ty] IN
             /\ gen'.at = gen.at
             /\ Last(gen'.blocks[gen.at].instrs) =
                   [op |-> "store", ptr |-> ptr, val |-> gen.val]
             /\ gen'.blocks[1].instrs[1] =
                   [op |-> "alloca", id |-> gen.next, ty |-> gen.val.ty,
                    name |-> Top(gen).symbol]
             /\ Len(gen'.blocks) = Len(gen.blocks)
             /\ \A b \in 2..Len(gen.blocks) :
                   gen'.blocks[b].instrs =
                       IF b = gen.at
                       THEN Append(gen.blocks[b].instrs, Last(gen'.blocks[gen.at].instrs))
                       ELSE gen.blocks[b].instrs

C19_AllocasInEntryBlock == [][C19_Step]_vars

C19_Witness ==
    /\ gen # Idle
    /\ gen.pc = "done"
    /\ gen.at # 1
    /\ Len(gen.slots) >= 3
    /\ Last(gen.blocks[1].instrs).op = "condbr"
    /\ \E b \in 2..Len(gen.blocks) :
          \E i \in 1..Len(gen.blocks[b].instrs) : gen.blocks[b].instrs[i].op = "store"

\* the fatal errors of a symbol that is not in scope
MissingSymbol == {"Couldn't find", "Could not find a var"}

\* Lexical scoping, by the book: the bindings the Vars of expr refer to, in
\* the order of evaluation, a binding being named by its rank among the
\* bindings made; env holds the innermost binding of every symbol in scope,
\* n the bindings made so far. ok is FALSE from the first Var on whose
\* symbol is not in scope.
RECURSIVE Lexical(_, _, _)
RECURSIVE LexicalAll(_, _, _, _)
Lexical(expr, env, n) ==
    CASE expr.e = "Var" ->
            IF expr.symbol \in DOMAIN env
            THEN [loads |-> <<env[expr.symbol]>>, n |-> n, ok |-> TRUE]
            ELSE [loads |-> <<>>, n |-> n, ok |-> FALSE]
      [] expr.e = "LetNonRec" ->
            LET bound == Lexical(expr.expr, env, n) IN
            IF ~bound.ok THEN bound
            ELSE LET body == Lexical(expr.ret, (expr.symbol :> bound.n + 1) @@ env,
                                     bound.n + 1)
                 IN  [body EXCEPT !.loads = bound.loads \o body.loads]
      [] expr.e = "When" ->
            LexicalAll(<<expr.cond>> \o [i \in 1..Len(expr.branches) |-> expr.branches[i].expr],
                       env, n, 1)
      [] OTHER -> [loads |-> <<>>, n |-> n, ok |-> TRUE]

LexicalAll(exprs, env, n, i) ==
    IF i > Len(exprs) THEN [loads |-> <<>>, n |-> n, ok |-> TRUE]
    ELSE LET first == Lexical(exprs[i], env, n) IN
         IF ~first.ok THEN first
         ELSE LET rest == LexicalAll(exprs, env, first.n, i + 1)
              IN  [rest EXCEPT !.loads = first.loads \o rest.loads]

\* the bindings the loads emitted so far read, by rank
LoadedSlots(g) ==
    [i \in 1..Len(g.loads) |-> CHOOSE k \in 1..Len(g.slots) : g.slots[k] = g.loads[i]]

\* the loads emitted are those of lexical scoping, as far as lowering came
LoadsAreLexical(g) ==
    LET expected == Lexical(g.expr, EmptyScope, 0) IN
    /\ IsPrefix(LoadedSlots(g), expected.loads)
    /\ g.pc = "done" => expected.ok /\ LoadedSlots(g) = expected.loads
    /\ (g.pc = "panic" /\ g.panic \in MissingSymbol)
          => ~expected.ok /\ LoadedSlots(g) = expected.loads

\* the let about to be lowered has its bound expression compiled next,
\* under the scope of the let
BoundExprCompiledNext ==
    LET frame == Top(gen) IN
    /\ gen'.pc = "run"
    /\ Top(gen') = Eval(frame.expr.expr, frame.scope)
    /\ Len(gen'.stack) = Len(gen.stack) + 1
    /\ gen'.stack[Len(gen.stack)].k = "let_bound"
    /\ gen'.stack[Len(gen.stack)].scope = frame.scope
    /\ SubSeq(gen'.stack, 1, Len(gen.stack) - 1) = Below(gen)

\* what C20 says of the steps that bind a name and that read one
BodyAndVarSteps ==
    /\ gen' # Idle => LoadsAreLexical(gen')
    /\ (Running("let_bound") /\ gen'.pc = "run")
          => LET frame == Top(gen) IN
             /\ Top(gen').expr = frame.ret
             /\ DOMAIN Top(gen').scope = DOMAIN frame.scope \cup {frame.symbol}
             /\ Top(gen').scope[frame.symbol].ptr.v = <<"reg", gen.next>>
             /\ \A symbol \in DOMAIN frame.scope \ {frame.symbol} :
                   Top(gen').scope[symbol] = frame.scope[symbol]
             /\ Below(gen') = Below(gen)
    /\ Compiling({"Var"})
          => LET frame == Top(gen) IN
             IF frame.expr.symbol \in DOMAIN frame.scope
             THEN /\ gen'.pc \in {"run", "done"}
                  /\ Last(gen'.blocks[gen.at].instrs) =
                        [op |-> "load", id |-> gen.next,
                         ptr |-> frame.scope[frame.expr.symbol].ptr]
                  /\ gen'.val.v = <<"reg", gen.next>>
             ELSE gen'.pc = "panic" /\ gen'.panic \in MissingSymbol

\* C20 as stated: a let has its bound expression compiled under the scope
\* of the let, whatever the expression, the only fatal error being that of
\* a symbol that is not in scope; its body is compiled under that scope
\* extended with the name; the scope of the let is left as it was; a Var
\* loads from the slot of the innermost binding of its symbol.
C20_StepAsStated ==
    /\ BodyAndVarSteps
    /\ (Compiling({"LetNonRec"}) /\ Top(gen).expr.pattern = "Identifier")
          => \/ BoundExprCompiledNext
             \/ /\ gen'.pc = "panic"
                /\ gen'.panic \in MissingSymbol
                /\ ~Lexical(Top(gen).expr.expr,
                            [symbol \in DOMAIN Top(gen).scope |-> 0], 0).ok

C20_LetCompilesAnyBoundExpr == [][C20_StepAsStated]_vars

\* C20 amended: a let whose bound expression is an Int, Float or Str literal
\* or a Var in scope has it compiled under the scope of the let; a bound Var
\* that is not in scope is the fatal error of a missing symbol; any other
\* bound expression (a When, a let) is a fatal error before anything of it is
\* compiled. The body is compiled under the scope of the let extended with
\* the name, the scope of the let is left as it was, and a Var loads from
\* the slot of the innermost binding of its symbol.
C20_StepAmended ==
    /\ BodyAndVarSteps
    /\ (Compiling({"LetNonRec"}) /\ Top(gen).expr.pattern = "Identifier")
          => LET frame == Top(gen)
                 e == frame.expr.expr IN
             CASE e.e \in {"Int", "Float", "Str"} -> BoundExprCompiledNext
               [] e.e = "Var" ->
                     IF e.symbol \in DOMAIN frame.scope
                     THEN BoundExprCompiledNext
                     ELSE gen'.pc = "panic" /\ gen'.panic = "Couldn't find"
               [] OTHER ->
                     /\ gen'.pc = "panic"
                     /\ gen'.panic = "TODO handle content_from_expr"
                     /\ gen'.blocks = gen.blocks

C20_LetCompilesLiteralOrVar == [][C20_StepAmended]_vars

C20_Witness ==
    /\ gen # Idle
    /\ gen.pc = "done"
    /\ Len(gen.loads) = 3
    /\ gen.loads[1] = gen.loads[3]
    /\ gen.loads[2] # gen.loads[1]
    /\ gen.at # 1

\* ------------------------------------------------ claims, failure states
\* the last call was char, string, advance_without_indenting or
\* advance_spaces, and it returned a failure
PrimitiveFailed ==
    /\ \/ op.name \in {"advance_without_indenting", "advance_spaces"}
       \/ Ran("char")
       \/ Ran("string")
    /\ res.kind = "Err"

C22_IndentColAdditionFits ==
    (op.name = "advance_spaces" /\ pre.column + op.n <= U16Max /\ pre.is_indenting)
        => U16Max - pre.indent_col >= op.n

\* ------------------------------------------------ claims, termination
\* the function has left its loop: it returned, a debug assertion unwound
\* it, or the attempt of p it is in does not return
Left == op.pc \in {"returned", "unwound", "diverged"}

\* what the call gives when it is computed at once
AtOnce == Parse([op |-> op.name, parser |-> op.parser], pre)

C23_Steps ==
    \* every success took a character: buf is no longer than the input taken
    /\ (MustConsume(op.parser) /\ op.pc \in {"loop", "returned"})
          => Len(op.buf) <= InputLen(pre.input) - InputLen(st.input)
    \* an attempt in the loop succeeded on no input, or p is val or optional
    /\ (op.idle \/ op.parser.op \in {"val", "optional"}) => op.pc # "returned"
    /\ op.pc = "diverged" => Parse(op.parser, st).kind = "Loop"
    /\ op.pc \in {"first", "loop"} => res = Parse(op.parser, st)
    /\ op.pc = "returned"
          => /\ res.kind \in {"Ok", "Err"}
             /\ AtOnce.kind = res.kind
             /\ AtOnce.out = res.out
             /\ AtOnce.state = res.state
             /\ AtOnce.fail = res.fail
    /\ AtOnce.kind = "Loop" => op.pc # "returned"

\* C23: zero_or_more(p) and one_or_more(p) leave their loop on every input
\* when each successful attempt of p takes at least one character (they
\* return, unless an attempt of p itself does not); once an attempt in the
\* loop succeeds without taking input, and always when p is val(x) or
\* optional(q), the loop never reaches a return.
C23_RepetitionTerminatesIffConsuming ==
    /\ []C23_Steps
    /\ (op.pc = "first" /\ MustConsume(op.parser)) ~> Left

C23_Witness ==
    /\ op.pc = "returned"
    /\ MustConsume(op.parser)
    /\ Len(op.buf) >= 3
    /\ res.kind = "Ok"

====
